---- MODULE Spec2Model ----
(***************************************************************************)
(* Model of the portfolio analyzer of the wealth-advisor backend           *)
(* (backend/app/services/portfolio_analyzer.py) and of the price source it *)
(* consumes (backend/app/services/market_data.py).                         *)
(*                                                                         *)
(* Numbers.  The code computes on Python floats and rounds what it reports *)
(* with round(x, 2).  The model computes exactly, on integers:             *)
(*   quantity        in tenths of a unit                                   *)
(*   prices          in cents                                              *)
(*   unrounded money in mills (quantity * price = tenths * cents)          *)
(*   reported money  in cents (round(x, 2))                                *)
(*   percentages     in hundredths of a percent (round(x, 2))              *)
(* round() is round-half-to-even on the exact value.                       *)
(***************************************************************************)
EXTENDS Integers, Sequences, FiniteSets, TLC

(***************************************************************************)
(* Bounds of the model.                                                    *)
(***************************************************************************)
MaxHoldings == 2
MaxCalls == 2
MaxSumHoldings == 5
MaxConcHoldings == 1
MaxConcCalls == 3
MaxRiskHoldings == 4
MaxRecHoldings == 5
MaxLoserHoldings == 4
MaxRebalanceHoldings == 2
MaxChatRequests == 5
MaxHoldingRequests == 3
MaxDispatches == 4
MaxAuthCalls == 2
MaxLLMCalls == 3

Calls == {1, 2}

(***************************************************************************)
(* Input domains.                                                          *)
(***************************************************************************)
HoldingPool ==
  { [symbol |-> "TCS.NS", quantity |-> 10, average_price |-> 100, asset_type |-> "stock"],
    [symbol |-> "TCS.NS", quantity |-> 20, average_price |-> 0, asset_type |-> "bond"],
    [symbol |-> "infy.ns", quantity |-> 10, average_price |-> 100, asset_type |-> "STOCK"],
    [symbol |-> "infy.ns", quantity |-> 1, average_price |-> 4, asset_type |-> "stock"] }

\* holdings valued a few tenths of a unit apiece, position k in its own asset
\* type or in "stock"
SumTypes == <<"bond", "etf", "gold", "crypto", "mutual_fund", "real_estate", "other">>

SumHoldingsAt(k) ==
  { [symbol |-> "TCS.NS", quantity |-> q, average_price |-> 100, asset_type |-> t] :
      q \in {1, 3}, t \in {SumTypes[((k - 1) % Len(SumTypes)) + 1], "stock"} }

ConcPool ==
  { [symbol |-> "TCS.NS", quantity |-> 10, average_price |-> 100, asset_type |-> "stock"] }

\* positions of one instrument that differ in size only: position k has one
\* of RiskQuantitiesAt(k) tenths of a unit (whole units, a tenth, or none)
RiskQuantitiesAt(k) ==
  CASE k = 1 -> {1, 10, 30, 40}
    [] k = 2 -> {0, 10, 30}
    [] k = 3 -> {10, 30}
    [] OTHER -> {10}

RiskHoldingsAt(k) ==
  { [symbol |-> "TCS.NS", quantity |-> q, average_price |-> 100, asset_type |-> "bond"] :
      q \in RiskQuantitiesAt(k) }

\* positions of one unit apiece that differ in symbol, asset type and
\* purchase price: bought at the market (100), well below it (60) or well
\* above it (130)
RecSymbolAt(k) == IF k % 2 = 1 THEN "TCS.NS" ELSE "infy.ns"

RecTypesAt(k) ==
  IF k = 1 THEN {"stock", "Stock"}
  ELSE IF k % 2 = 0 THEN {"STOCK", "bond"} ELSE {"stock", "bond"}

RecPricesAt(k) ==
  CASE k = 1 -> {100, 60}
    [] k = 2 -> {100, 130}
    [] OTHER -> {100}

RecHoldingsAt(k) ==
  { [symbol |-> RecSymbolAt(k), quantity |-> 10, average_price |-> a, asset_type |-> t] :
      a \in RecPricesAt(k), t \in RecTypesAt(k) }

\* positions of one unit apiece, each of its own symbol, bought at 200 or at
\* 250: a quote of 160 is a loss of exactly 20 percent on the first and of
\* 36 percent on the second
LoserSymbols == <<"TCS.NS", "infy.ns", "RELIANCE.NS", "ITC.NS", "LT.NS", "SBIN.NS">>

LoserHoldingsAt(k) ==
  { [symbol |-> LoserSymbols[((k - 1) % Len(LoserSymbols)) + 1], quantity |-> 10,
     average_price |-> a, asset_type |-> "bond"] : a \in {200, 250} }

\* a unit of stock and a unit of bonds, both bought at the market
RebalancePool ==
  { [symbol |-> "TCS.NS", quantity |-> 10, average_price |-> 100, asset_type |-> "stock"],
    [symbol |-> "infy.ns", quantity |-> 10, average_price |-> 100, asset_type |-> "bond"] }

YfPrices == {0, 160}
MockPrices == {97, 103}

RECURSIVE SeqsUpTo(_, _)
SeqsUpTo(S, n) ==
  IF n = 0 THEN {<<>>}
  ELSE LET shorter == SeqsUpTo(S, n - 1)
       IN  shorter \cup { Append(s, x) : s \in { t \in shorter : Len(t) = n - 1 }, x \in S }

\* target allocations: an ordered dict of at most one entry per asset type,
\* as a sequence of entries; percentages in hundredths of a percent
TargetTypes == {"stock", "bond"}
TargetPercents == {0, 200, 4800, 5000, 10000}

TargetEntries == { [asset_type |-> a, percent |-> v] : a \in TargetTypes, v \in TargetPercents }

Targets ==
  { s \in SeqsUpTo(TargetEntries, Cardinality(TargetTypes)) :
      \A j, k \in 1..Len(s) : j # k => s[j].asset_type # s[k].asset_type }

(***************************************************************************)
(* Arithmetic of the code.                                                 *)
(***************************************************************************)
Abs(x) == IF x < 0 THEN -x ELSE x

\* round(n / d) for d > 0, ties to the even neighbour (Python's round)
RoundHalfEven(n, d) ==
  LET q == n \div d
      r == n % d
  IN  IF 2 * r < d THEN q
      ELSE IF 2 * r > d THEN q + 1
      ELSE IF q % 2 = 0 THEN q ELSE q + 1

\* round(x, 2) of an amount in mills: the amount in cents
Round2Money(mills) == RoundHalfEven(mills, 10)

\* n / d in Python: ZeroDivisionError when d = 0; otherwise the quotient
\* times 100, rounded to two decimals (hundredths of a percent)
PyPercent(n, d) ==
  IF d = 0 THEN [raised |-> TRUE, val |-> 0]
  ELSE [raised |-> FALSE, val |-> RoundHalfEven(n * 10000, d)]

NoRaise(v) == [raised |-> FALSE, val |-> v]

RECURSIVE SumSeq(_)
SumSeq(s) == IF s = <<>> THEN 0 ELSE s[1] + SumSeq(Tail(s))

RECURSIVE MaxSeq(_)
MaxSeq(s) ==
  IF Len(s) = 1 THEN s[1]
  ELSE LET m == MaxSeq(Tail(s)) IN IF s[1] >= m THEN s[1] ELSE m

MinOf(a, b) == IF a <= b THEN a ELSE b

(***************************************************************************)
(* Price source: MarketDataService                                         *)
(***************************************************************************)
\* symbol.upper().strip()
Upper(symbol) ==
  CASE symbol = "infy.ns" -> "INFY.NS"
    [] OTHER -> symbol

\* name the provider reports for a symbol
CompanyName(symbol) ==
  CASE symbol = "TCS.NS" -> "Tata Consultancy Services"
    [] symbol = "INFY.NS" -> "Infosys"
    [] OTHER -> symbol

\* what the provider behind get_stock_price can do for one request:
\* yfinance returns a quote (price possibly 0) or raises; the mock returns
\* a quote with a positive price and never raises
ProviderOutcomes(md) ==
  IF md.yf_available
  THEN { [kind |-> "quote", price |-> p] : p \in YfPrices } \cup { [kind |-> "exception", price |-> 0] }
  ELSE { [kind |-> "quote", price |-> p] : p \in MockPrices }

\* _get_error_response: no price and no name
_get_error_response(symbol, utcnow) ==
  [symbol |-> symbol, error |-> "provider error", timestamp |-> utcnow]

\* the dict _get_price_yfinance and _get_mock_price return, without the
\* fields no caller in the analyzer reads
Quote(symbol, price, utcnow) ==
  [symbol |-> symbol, name |-> CompanyName(symbol), price |-> price, timestamp |-> utcnow]

\* variant: no try/except around the provider
get_stock_price_Unguarded(symbol, outcome, utcnow) ==
  LET sym == Upper(symbol)
  IN  IF outcome.kind = "exception"
      THEN [raised |-> TRUE, data |-> _get_error_response(sym, utcnow)]
      ELSE [raised |-> FALSE, data |-> Quote(sym, outcome.price, utcnow)]

\* get_stock_price: the try/except around the provider turns an exception
\* into the error response
get_stock_price(symbol, outcome, utcnow) ==
  LET sym == Upper(symbol)
  IN  IF outcome.kind = "exception"
      THEN [raised |-> FALSE, data |-> _get_error_response(sym, utcnow)]
      ELSE [raised |-> FALSE, data |-> Quote(sym, outcome.price, utcnow)]

(***************************************************************************)
(* Portfolio analyzer: the pure parts of analyze_portfolio                 *)
(***************************************************************************)
NoHoldingsError == [error |-> "No holdings found in portfolio"]

\* portfolio.get("holdings", [])
PortfolioHoldings(portfolio) ==
  IF "holdings" \in DOMAIN portfolio THEN portfolio.holdings ELSE <<>>

\* variant: the guard tests `holdings is None`
NoHoldings_IsNone(holdings) == FALSE

\* `not holdings`
NoHoldings(holdings) == holdings = <<>>

\* variant: price_data.get("price", 0)
CurrentPrice_DefaultZero(price_data, avg_price) ==
  IF "price" \in DOMAIN price_data THEN price_data.price ELSE 0

\* price_data.get("price", avg_price)
CurrentPrice(price_data, avg_price) ==
  IF "price" \in DOMAIN price_data THEN price_data.price ELSE avg_price

\* price_data.get("name", symbol)
DisplayName(price_data, symbol) ==
  IF "name" \in DOMAIN price_data THEN price_data.name ELSE symbol

\* the guard of the gain percentage: invested > 0
HasInvested(invested) == invested > 0

\* gain_pct = (gain / invested * 100) if invested > 0 else 0
GainPct(gain, invested) ==
  IF HasInvested(invested) THEN PyPercent(gain, invested) ELSE NoRaise(0)

\* variant: gain = invested - current
HoldingEntry_GainReversed(holding, price_data) ==
  LET current_price == CurrentPrice(price_data, holding.average_price)
      invested == holding.quantity * holding.average_price
      current == holding.quantity * current_price
      gain == invested - current
      gain_pct == GainPct(gain, invested)
  IN  [raised |-> gain_pct.raised,
       invested |-> invested,
       current |-> current,
       entry |-> [symbol |-> holding.symbol,
                  name |-> DisplayName(price_data, holding.symbol),
                  quantity |-> holding.quantity,
                  average_price |-> holding.average_price,
                  current_price |-> current_price,
                  invested_value |-> Round2Money(invested),
                  current_value |-> Round2Money(current),
                  gain_loss |-> Round2Money(gain),
                  gain_loss_percent |-> gain_pct.val,
                  weight |-> 0]]

\* the dict appended to holdings_analysis for one holding
HoldingEntry(holding, price_data) ==
  LET current_price == CurrentPrice(price_data, holding.average_price)
      invested == holding.quantity * holding.average_price
      current == holding.quantity * current_price
      gain == current - invested
      gain_pct == GainPct(gain, invested)
  IN  [raised |-> gain_pct.raised,
       invested |-> invested,
       current |-> current,
       entry |-> [symbol |-> holding.symbol,
                  name |-> DisplayName(price_data, holding.symbol),
                  quantity |-> holding.quantity,
                  average_price |-> holding.average_price,
                  current_price |-> current_price,
                  invested_value |-> Round2Money(invested),
                  current_value |-> Round2Money(current),
                  gain_loss |-> Round2Money(gain),
                  gain_loss_percent |-> gain_pct.val,
                  weight |-> 0]]

\* variant: holdings_analysis.insert(0, entry)
AppendEntry_Prepend(holdings_analysis, entry) == <<entry>> \o holdings_analysis

\* holdings_analysis.append(entry)
AppendEntry(holdings_analysis, entry) == Append(holdings_analysis, entry)

\* variant: `allocation[asset_type] = current`
AddAllocation_Assign(allocation, asset_type, current) ==
  [t \in DOMAIN allocation \cup {asset_type} |->
     IF t = asset_type THEN current ELSE allocation[t]]

\* allocation after `allocation[asset_type] += current`
AddAllocation(allocation, asset_type, current) ==
  [t \in DOMAIN allocation \cup {asset_type} |->
     IF t = asset_type
     THEN (IF t \in DOMAIN allocation THEN allocation[t] ELSE 0) + current
     ELSE allocation[t]]

\* variant: the guard is `total_value >= 0`
HasTotal_NonNegative(total_value) == total_value >= 0

\* the guard of the weights and of the allocation percentages
HasTotal(total_value) == total_value > 0

\* variant: the weight is cut to two decimals instead of rounded
Weight_Truncating(current_value, total_value) ==
  IF total_value > 0
  THEN NoRaise((current_value * 10 * 10000) \div total_value)
  ELSE NoRaise(0)

\* round((holding["current_value"] / total_value * 100) if total_value > 0 else 0, 2)
Weight(current_value, total_value) ==
  IF HasTotal(total_value) THEN PyPercent(current_value * 10, total_value) ELSE NoRaise(0)

\* round((value / total_value * 100) if total_value > 0 else 0, 2)
AllocationPct(value, total_value) ==
  IF HasTotal(total_value) THEN PyPercent(value, total_value) ELSE NoRaise(0)

\* (total_gain / total_invested * 100) if total_invested > 0 else 0
TotalGainPct(total_gain, total_invested) ==
  IF total_invested > 0 THEN PyPercent(total_gain, total_invested) ELSE NoRaise(0)

Weights(holdings) == [k \in 1..Len(holdings) |-> holdings[k].weight]

\* lines 170-174 and 191: the diversification score, in tenths
\* (round(diversification, 1))
Diversification(n, max_weight) ==
  IF n = 1 THEN 10
  ELSE RoundHalfEven(MinOf(100000, n * (10000 - max_weight)), 1000)

\* variant: the thresholds are `>= 50` and `>= 30`
RiskLevel_Inclusive(max_weight) ==
  IF max_weight >= 5000 THEN [risk_level |-> "High", risk_score |-> 8]
  ELSE IF max_weight >= 3000 THEN [risk_level |-> "Medium", risk_score |-> 5]
  ELSE [risk_level |-> "Low", risk_score |-> 3]

\* lines 178-186: risk_level and risk_score from the top weight
RiskLevel(max_weight) ==
  IF max_weight > 5000 THEN [risk_level |-> "High", risk_score |-> 8]
  ELSE IF max_weight > 3000 THEN [risk_level |-> "Medium", risk_score |-> 5]
  ELSE [risk_level |-> "Low", risk_score |-> 3]

\* variant: "High" if max_weight >= 40
ConcentrationStatus_Inclusive(max_weight) ==
  IF max_weight >= 4000 THEN "High" ELSE "Acceptable"

\* "High" if max_weight > 40 else "Acceptable"
ConcentrationStatus(max_weight) ==
  IF max_weight > 4000 THEN "High" ELSE "Acceptable"

\* _calculate_risk_metrics
_calculate_risk_metrics(holdings) ==
  LET n == Len(holdings)
      max_weight == IF n = 0 THEN 0 ELSE MaxSeq(Weights(holdings))
  IN  IF n = 0 THEN <<>> ELSE
      [risk_level |-> RiskLevel(max_weight).risk_level,
       risk_score |-> RiskLevel(max_weight).risk_score,
       diversification_score |-> Diversification(n, max_weight),
       concentration_risk |->
         [top_holding_weight |-> max_weight,
          status |-> ConcentrationStatus(max_weight)],
       number_of_positions |-> n]

\* variant: the last holding of largest weight
TopHolding_Last(holdings) ==
  LET m == MaxSeq(Weights(holdings))
      k == CHOOSE j \in 1..Len(holdings) :
             /\ holdings[j].weight = m
             /\ \A l \in (j + 1)..Len(holdings) : holdings[l].weight # m
  IN  holdings[k]

\* max(holdings, key=lambda x: x["weight"]): the first holding of largest weight
TopHolding(holdings) ==
  LET m == MaxSeq(Weights(holdings))
      k == CHOOSE j \in 1..Len(holdings) :
             /\ holdings[j].weight = m
             /\ \A l \in 1..(j - 1) : holdings[l].weight # m
  IN  holdings[k]

\* [h for h in holdings if h["gain_loss_percent"] < -20]
RECURSIVE BigLosers(_)
BigLosers(s) ==
  IF s = <<>> THEN <<>>
  ELSE IF s[1].gain_loss_percent < -2000 THEN <<s[1]>> \o BigLosers(Tail(s))
       ELSE BigLosers(Tail(s))

\* [h for h in holdings if h["gain_loss_percent"] > 50]
RECURSIVE BigWinners(_)
BigWinners(s) ==
  IF s = <<>> THEN <<>>
  ELSE IF s[1].gain_loss_percent > 5000 THEN <<s[1]>> \o BigWinners(Tail(s))
       ELSE BigWinners(Tail(s))

\* variant: the list is not cut
FirstThree_All(s) == s

\* s[:3]
FirstThree(s) == SubSeq(s, 1, MinOf(3, Len(s)))

Rec(rule, symbols, weight) == [rule |-> rule, symbols |-> symbols, weight |-> weight]

DictGet(dict, key, default) == IF key \in DOMAIN dict THEN dict[key] ELSE default

\* variant: `len(holdings) <= 5`
FewHoldings_Inclusive(holdings) == Len(holdings) <= 5

\* the condition of rule 1: len(holdings) < 5
FewHoldings(holdings) == Len(holdings) < 5

\* variant: the asset type is compared without regard to case
stock_allocation_AnyCase(allocation) ==
  DictGet(allocation, "stock", 0) + DictGet(allocation, "STOCK", 0)
    + DictGet(allocation, "Stock", 0)

\* allocation.get("stock", 0) + allocation.get("STOCK", 0)
stock_allocation(allocation) ==
  DictGet(allocation, "stock", 0) + DictGet(allocation, "STOCK", 0)

\* variant: the winners rule is tried before the losers rule, and the
\* default message closes every list
_generate_recommendations_Reordered(holdings, allocation, risk_metrics) ==
  LET top_weight ==
        IF "concentration_risk" \in DOMAIN risk_metrics
        THEN risk_metrics.concentration_risk.top_holding_weight ELSE 0
      big_losers == BigLosers(holdings)
      big_winners == BigWinners(holdings)
      r1 == IF FewHoldings(holdings) THEN <<Rec("diversify", <<>>, 0)>> ELSE <<>>
      r2 == IF top_weight > 4000
            THEN <<Rec("concentration", <<TopHolding(holdings).symbol>>,
                       RoundHalfEven(top_weight, 10))>>
            ELSE <<>>
      r3 == IF stock_allocation(allocation) > 8000 THEN <<Rec("stocks", <<>>, 0)>> ELSE <<>>
      r4 == IF big_losers # <<>>
            THEN <<Rec("losers",
                       [k \in 1..Len(FirstThree(big_losers)) |-> big_losers[k].symbol], 0)>>
            ELSE <<>>
      r5 == IF big_winners # <<>> THEN <<Rec("winners", <<>>, 0)>> ELSE <<>>
  IN  r1 \o r2 \o r3 \o r5 \o r4 \o <<Rec("default", <<>>, 0)>>

\* _generate_recommendations; a recommendation is the rule that wrote it
\* and what it interpolates (symbols; the weight formatted with .1f, in tenths)
_generate_recommendations(holdings, allocation, risk_metrics) ==
  LET top_weight ==
        IF "concentration_risk" \in DOMAIN risk_metrics
        THEN risk_metrics.concentration_risk.top_holding_weight ELSE 0
      big_losers == BigLosers(holdings)
      big_winners == BigWinners(holdings)
      r1 == IF FewHoldings(holdings) THEN <<Rec("diversify", <<>>, 0)>> ELSE <<>>
      r2 == IF top_weight > 4000
            THEN <<Rec("concentration", <<TopHolding(holdings).symbol>>,
                       RoundHalfEven(top_weight, 10))>>
            ELSE <<>>
      r3 == IF stock_allocation(allocation) > 8000 THEN <<Rec("stocks", <<>>, 0)>> ELSE <<>>
      r4 == IF big_losers # <<>>
            THEN <<Rec("losers",
                       [k \in 1..Len(FirstThree(big_losers)) |-> big_losers[k].symbol], 0)>>
            ELSE <<>>
      r5 == IF big_winners # <<>> THEN <<Rec("winners", <<>>, 0)>> ELSE <<>>
      rules == r1 \o r2 \o r3 \o r4 \o r5
  IN  IF rules = <<>> THEN <<Rec("default", <<>>, 0)>> ELSE rules

\* lines 111-153 of analyze_portfolio: weights, allocation percentages,
\* overall returns, risk metrics, recommendations and the returned dict
Assemble(holdings, holdings_analysis, allocation, total_value, total_invested, utcnow) ==
  LET n == Len(holdings_analysis)
      ws == [k \in 1..n |-> Weight(holdings_analysis[k].current_value, total_value)]
      weighted == [k \in 1..n |-> [holdings_analysis[k] EXCEPT !.weight = ws[k].val]]
      pcts == [t \in DOMAIN allocation |-> AllocationPct(allocation[t], total_value)]
      allocation_pct == [t \in DOMAIN allocation |-> pcts[t].val]
      total_gain == total_value - total_invested
      total_gain_pct == TotalGainPct(total_gain, total_invested)
      risk_metrics == _calculate_risk_metrics(weighted)
  IN  IF \/ \E k \in 1..n : ws[k].raised
         \/ \E t \in DOMAIN allocation : pcts[t].raised
         \/ total_gain_pct.raised
      THEN [raised |-> "ZeroDivisionError"]
      ELSE [summary |-> [total_invested |-> Round2Money(total_invested),
                         current_value |-> Round2Money(total_value),
                         total_gain_loss |-> Round2Money(total_gain),
                         total_return_percent |-> total_gain_pct.val,
                         number_of_holdings |-> Len(holdings)],
            allocation |-> allocation_pct,
            holdings |-> weighted,
            risk_metrics |-> risk_metrics,
            recommendations |->
              _generate_recommendations(weighted, allocation_pct, risk_metrics),
            analyzed_at |-> utcnow]

(***************************************************************************)
(* State                                                                   *)
(***************************************************************************)
VARIABLES
  market_data,  \* PortfolioAnalyzer.market_data: the MarketDataService's fields
  pc,           \* pc[c]: where call c of analyze_portfolio stands
  portfolio,    \* portfolio[c]: the caller's portfolio dict passed to call c
  frame,        \* frame[c]: the local variables of call c
  result,       \* result[c]: what call c returned (or raised)
  lookups,      \* lookups[c]: the symbols call c passed to get_stock_price
  answers,      \* answers[c]: the price_data get_stock_price returned to call c
  now,          \* the clock read by datetime.utcnow()
  ncalls,       \* calls started so far
  target_allocation,  \* the target_allocation passed to get_rebalancing_suggestions
  rebalancing,  \* what get_rebalancing_suggestions returned (or raised)
  formatted,    \* what analyze returned: the lines of its text (none before it returns)
  settings,     \* main_minimal: app.core.config.settings, the fields the app reads
  _groq_client, \* main_minimal: the module's lazily made Groq client
  chat,         \* main_minimal: the POST /api/chat request being served
  nchat,        \* main_minimal: chat requests received so far
  db,           \* api/v1/portfolio: the portfolio row and its holdings rows
  nrequests,    \* api/v1/portfolio: holdings requests served so far
  middleware,   \* RateLimitMiddleware: request_counts, minute_limit, hour_limit
  time,         \* the clock read by time.time()
  requests,     \* the requests dispatch has received, with where each stands
  users,        \* core/auth: the rows of the users table
  auth,         \* core/auth: the last call of get_current_user
  nauth,        \* core/auth: calls of get_current_user so far
  memories,     \* LLMService.memories: user_id -> the list of entries
  llm_calls,    \* the calls of process_message made so far, with what each returned
  exchanges     \* per user, every entry of the calls that generated a response

analyzerVars == <<market_data, pc, portfolio, frame, result, lookups, answers, now, ncalls>>
rebalanceVars == <<target_allocation, rebalancing>>
formatVars == <<formatted>>
chatVars == <<settings, _groq_client, chat, nchat>>
holdingVars == <<db, nrequests>>
limitVars == <<middleware, time, requests>>
authVars == <<users, auth, nauth>>
memoryVars == <<memories, llm_calls, exchanges>>

\* the variables analyze_portfolio never touches
otherVars ==
  <<rebalanceVars, formatVars, chatVars, holdingVars, limitVars, authVars, memoryVars>>

\* the variables the other operations never touch
notRebalanceVars ==
  <<analyzerVars, formatVars, chatVars, holdingVars, limitVars, authVars, memoryVars>>
notFormatVars ==
  <<analyzerVars, rebalanceVars, chatVars, holdingVars, limitVars, authVars, memoryVars>>
notChatVars ==
  <<analyzerVars, rebalanceVars, formatVars, holdingVars, limitVars, authVars, memoryVars>>
notHoldingVars ==
  <<analyzerVars, rebalanceVars, formatVars, chatVars, limitVars, authVars, memoryVars>>
notLimitVars ==
  <<analyzerVars, rebalanceVars, formatVars, chatVars, holdingVars, authVars, memoryVars>>
notAuthVars ==
  <<analyzerVars, rebalanceVars, formatVars, chatVars, holdingVars, limitVars, memoryVars>>
notMemoryVars ==
  <<analyzerVars, rebalanceVars, formatVars, chatVars, holdingVars, limitVars, authVars>>

vars == <<analyzerVars, otherVars>>

NoPortfolio == [id |-> 0]
Pending == [pending |-> TRUE]

\* lines 69-72: the locals before the loop
InitialFrame ==
  [i |-> 1, total_value |-> 0, total_invested |-> 0, allocation |-> <<>>,
   holdings_analysis |-> <<>>, price_data |-> <<>>]

\* variant: the accumulators live on the analyzer and are not reset
FrameAtStart_Kept(c) == [frame[c] EXCEPT !.i = 1]

\* the locals a call starts from: fresh ones, whatever an earlier call left
FrameAtStart(c) == InitialFrame

\* MarketDataService.__init__
NewMarketData(yf) == [cache_ttl |-> 300, yf_available |-> yf]

Portfolios(n) ==
  { [id |-> 1, holdings |-> hs] : hs \in SeqsUpTo(HoldingPool, n) } \cup { [id |-> 1] }

\* portfolios of 1..n holdings, the k-th drawn from SumHoldingsAt(k)
RECURSIVE SumHoldingLists(_)
SumHoldingLists(n) ==
  IF n = 0 THEN {<<>>}
  ELSE LET shorter == SumHoldingLists(n - 1)
       IN  shorter \cup { Append(s, h) : s \in { t \in shorter : Len(t) = n - 1 },
                                          h \in SumHoldingsAt(n) }

SumPortfolios(n) ==
  { [id |-> 1, holdings |-> hs] : hs \in SumHoldingLists(n) \ {<<>>} }

\* portfolios of 1..n holdings, the k-th drawn from RiskHoldingsAt(k)
RECURSIVE RiskHoldingLists(_)
RiskHoldingLists(n) ==
  IF n = 0 THEN {<<>>}
  ELSE LET shorter == RiskHoldingLists(n - 1)
       IN  shorter \cup { Append(s, h) : s \in { t \in shorter : Len(t) = n - 1 },
                                          h \in RiskHoldingsAt(n) }

RiskPortfolios(n) ==
  { [id |-> 1, holdings |-> hs] : hs \in RiskHoldingLists(n) \ {<<>>} }

\* portfolios of 1..n holdings, the k-th drawn from RecHoldingsAt(k)
RECURSIVE RecHoldingLists(_)
RecHoldingLists(n) ==
  IF n = 0 THEN {<<>>}
  ELSE LET shorter == RecHoldingLists(n - 1)
       IN  shorter \cup { Append(s, h) : s \in { t \in shorter : Len(t) = n - 1 },
                                          h \in RecHoldingsAt(n) }

RecPortfolios(n) ==
  { [id |-> 1, holdings |-> hs] : hs \in RecHoldingLists(n) \ {<<>>} }

\* portfolios of 1..n holdings, the k-th drawn from LoserHoldingsAt(k)
RECURSIVE LoserHoldingLists(_)
LoserHoldingLists(n) ==
  IF n = 0 THEN {<<>>}
  ELSE LET shorter == LoserHoldingLists(n - 1)
       IN  shorter \cup { Append(s, h) : s \in { t \in shorter : Len(t) = n - 1 },
                                          h \in LoserHoldingsAt(n) }

LoserPortfolios(n) ==
  { [id |-> 1, holdings |-> hs] : hs \in LoserHoldingLists(n) \ {<<>>} }

ConcPortfolios(n) ==
  { [id |-> 1, holdings |-> hs] : hs \in SeqsUpTo(ConcPool, n) }

\* the inputs of the specifications
SeqInputs == Portfolios(MaxHoldings)
RiskInputs == RiskPortfolios(MaxRiskHoldings)
RecInputs == RecPortfolios(MaxRecHoldings)
LoserInputs == LoserPortfolios(MaxLoserHoldings)
SumInputs == SumPortfolios(MaxSumHoldings)
ConcInputs == ConcPortfolios(MaxConcHoldings)

\* no call of get_rebalancing_suggestions is made
NoRebalancing ==
  /\ target_allocation = <<>>
  /\ rebalancing = Pending

\* no call of analyze is made
NoFormatting == formatted = <<>>

\* no request has reached the minimal app, whose module globals are as
\* loaded: no Groq client yet
NoChat ==
  /\ settings = [GROQ_API_KEY |-> "test-key"]
  /\ _groq_client = "None"
  /\ chat = [pc |-> "idle"]
  /\ nchat = 0

\* a portfolio row as create_portfolio leaves it, without holdings
NoHoldingRows ==
  /\ db = [total_invested |-> 0, holdings |-> <<>>, next_id |-> 1]
  /\ nrequests = 0

\* the middleware as constructed with the default settings; no request yet
NoRequests ==
  /\ middleware = [request_counts |-> <<>>, minute_limit |-> 60, hour_limit |-> 1000]
  /\ time = 0
  /\ requests = <<>>

\* an empty users table; get_current_user not called
NoAuth ==
  /\ users = <<>>
  /\ auth = [pc |-> "idle"]
  /\ nauth = 0

\* LLMService as constructed: self.memories = {}
NoMemories ==
  /\ memories = <<>>
  /\ llm_calls = <<>>
  /\ exchanges = <<>>

\* the API is not used
NoApi ==
  /\ NoHoldingRows
  /\ NoRequests
  /\ NoAuth
  /\ NoMemories

AnalyzerInit(yfs) ==
  /\ market_data \in { NewMarketData(yf) : yf \in yfs }
  /\ pc = [c \in Calls |-> "idle"]
  /\ portfolio = [c \in Calls |-> NoPortfolio]
  /\ frame = [c \in Calls |-> InitialFrame]
  /\ result = [c \in Calls |-> Pending]
  /\ lookups = [c \in Calls |-> <<>>]
  /\ answers = [c \in Calls |-> <<>>]
  /\ now = 0
  /\ ncalls = 0

InitWith(yfs) ==
  /\ AnalyzerInit(yfs)
  /\ NoRebalancing
  /\ NoFormatting
  /\ NoChat
  /\ NoApi

Init == InitWith(BOOLEAN)

(***************************************************************************)
(* analyze_portfolio, step by step                                         *)
(***************************************************************************)
\* the call is made: lines 63-72
\* (the caller passes one of `inputs`; at most max_calls calls are made)
StartCall(c, inputs, max_calls) ==
  /\ pc[c] \in {"idle", "done"}
  /\ ncalls < max_calls
  /\ ncalls' = ncalls + 1
  /\ frame' = [frame EXCEPT ![c] = FrameAtStart(c)]
  /\ lookups' = [lookups EXCEPT ![c] = <<>>]
  /\ answers' = [answers EXCEPT ![c] = <<>>]
  /\ \E p \in inputs :
       /\ portfolio' = [portfolio EXCEPT ![c] = p]
       /\ IF NoHoldings(PortfolioHoldings(p))
          THEN /\ result' = [result EXCEPT ![c] = NoHoldingsError]
               /\ pc' = [pc EXCEPT ![c] = "done"]
          ELSE /\ result' = [result EXCEPT ![c] = Pending]
               /\ pc' = [pc EXCEPT ![c] = "loop"]
  /\ UNCHANGED <<market_data, now>>
  /\ UNCHANGED otherVars

\* the holding the loop of call c is at
LoopHolding(c) == PortfolioHoldings(portfolio[c])[frame[c].i]

\* variant: the loop stops one holding early
LoopHasNext_OffByOne(c) == frame[c].i < Len(PortfolioHoldings(portfolio[c]))

\* the loop has a next holding
LoopHasNext(c) == frame[c].i <= Len(PortfolioHoldings(portfolio[c]))

\* lines 75-81: price_data = self.market_data.get_stock_price(symbol)
Lookup(c) ==
  /\ pc[c] = "loop"
  /\ LoopHasNext(c)
  /\ \E outcome \in ProviderOutcomes(market_data) :
       LET symbol == LoopHolding(c).symbol
           got == get_stock_price(symbol, outcome, now)
       IN  /\ lookups' = [lookups EXCEPT ![c] = Append(@, symbol)]
           /\ IF got.raised
              THEN /\ result' = [result EXCEPT ![c] = [raised |-> "Exception"]]
                   /\ pc' = [pc EXCEPT ![c] = "done"]
                   /\ UNCHANGED <<frame, answers>>
              ELSE /\ answers' = [answers EXCEPT ![c] = Append(@, got.data)]
                   /\ frame' = [frame EXCEPT ![c].price_data = got.data]
                   /\ pc' = [pc EXCEPT ![c] = "process"]
                   /\ UNCHANGED result
  /\ now' = now + 1
  /\ UNCHANGED <<market_data, portfolio, ncalls>>
  /\ UNCHANGED otherVars

\* variant: total_invested += current
FrameAfter_InvestedFromCurrent(f, holding, done) ==
  [i |-> f.i + 1,
   total_value |-> f.total_value + done.current,
   total_invested |-> f.total_invested + done.current,
   allocation |-> AddAllocation(f.allocation, holding.asset_type, done.current),
   holdings_analysis |-> AppendEntry(f.holdings_analysis, done.entry),
   price_data |-> f.price_data]

\* lines 90-109: the locals after the loop body has handled `holding`
FrameAfter(f, holding, done) ==
  [i |-> f.i + 1,
   total_value |-> f.total_value + done.current,
   total_invested |-> f.total_invested + done.invested,
   allocation |-> AddAllocation(f.allocation, holding.asset_type, done.current),
   holdings_analysis |-> AppendEntry(f.holdings_analysis, done.entry),
   price_data |-> f.price_data]

\* the answers all running calls hold
AllAnswers == UNION { { answers[c][k] : k \in 1..Len(answers[c]) } : c \in Calls }

\* variant: price_data is an attribute of the shared analyzer, so the loop
\* body reads the answer written last by any call
LoopPriceData_Shared(c) ==
  CHOOSE a \in AllAnswers : \A b \in AllAnswers : b.timestamp <= a.timestamp

\* the price_data the loop body of call c works on
LoopPriceData(c) == frame[c].price_data

\* lines 82-109: the rest of the loop body
ProcessHolding(c) ==
  /\ pc[c] = "process"
  /\ LET holding == LoopHolding(c)
         done == HoldingEntry(holding, LoopPriceData(c))
         f == frame[c]
     IN  IF done.raised
         THEN /\ result' = [result EXCEPT ![c] = [raised |-> "ZeroDivisionError"]]
              /\ pc' = [pc EXCEPT ![c] = "done"]
              /\ UNCHANGED frame
         ELSE /\ frame' = [frame EXCEPT ![c] = FrameAfter(f, holding, done)]
              /\ pc' = [pc EXCEPT ![c] = "loop"]
              /\ UNCHANGED result
  /\ UNCHANGED <<market_data, portfolio, lookups, answers, now, ncalls>>
  /\ UNCHANGED otherVars

\* lines 111-153: after the loop, up to the return
Finish(c) ==
  /\ pc[c] = "loop"
  /\ ~LoopHasNext(c)
  /\ LET f == frame[c]
     IN  result' = [result EXCEPT ![c] =
           Assemble(PortfolioHoldings(portfolio[c]), f.holdings_analysis, f.allocation,
                    f.total_value, f.total_invested, now)]
  /\ pc' = [pc EXCEPT ![c] = "done"]
  /\ now' = now + 1
  /\ UNCHANGED <<market_data, portfolio, frame, lookups, answers, ncalls>>
  /\ UNCHANGED otherVars

(***************************************************************************)
(* get_rebalancing_suggestions                                             *)
(***************************************************************************)
RebalancePortfolios(n) ==
  { [id |-> 1, holdings |-> hs] : hs \in SeqsUpTo(RebalancePool, n) }

RebalanceInputs == RebalancePortfolios(MaxRebalanceHoldings)

\* analysis.get("allocation", {})
AnalysisAllocation(analysis) ==
  IF "allocation" \in DOMAIN analysis THEN analysis.allocation ELSE <<>>

\* analysis.get("summary", {}).get("current_value", 0), in cents
AnalysisTotalValue(analysis) ==
  IF "summary" \in DOMAIN analysis THEN analysis.summary.current_value ELSE 0

\* variant: `abs(diff) >= 2`
Significant_Inclusive(diff) == Abs(diff) >= 200

\* abs(diff) > 2
Significant(diff) == Abs(diff) > 200

\* variant: "Buy" if diff < 0 else "Sell"
Action_Reversed(diff) == IF diff < 0 THEN "Buy" ELSE "Sell"

\* "Buy" if diff > 0 else "Sell"
Action(diff) == IF diff > 0 THEN "Buy" ELSE "Sell"

\* lines 317-332: the suggestion for one entry of the target allocation, or
\* nothing; amount = round(abs(total_value * (diff / 100)), 2), in cents
SuggestionFor(entry, current_allocation, total_value) ==
  LET current_pct == DictGet(current_allocation, entry.asset_type, 0)
      diff == entry.percent - current_pct
  IN  IF Significant(diff)
      THEN <<[asset_type |-> entry.asset_type,
              current_percent |-> current_pct,
              target_percent |-> entry.percent,
              difference |-> diff,
              action |-> Action(diff),
              amount |-> RoundHalfEven(Abs(total_value * diff), 10000)]>>
      ELSE <<>>

\* the loop over target_allocation.items()
RECURSIVE Suggestions(_, _, _)
Suggestions(target, current_allocation, total_value) ==
  IF target = <<>> THEN <<>>
  ELSE SuggestionFor(target[1], current_allocation, total_value)
         \o Suggestions(Tail(target), current_allocation, total_value)

\* lines 311-339, after analyze_portfolio has returned `analysis`
RebalancingResult(analysis, target) ==
  [current_allocation |-> AnalysisAllocation(analysis),
   target_allocation |-> target,
   suggestions |-> Suggestions(target, AnalysisAllocation(analysis),
                               AnalysisTotalValue(analysis)),
   total_portfolio_value |-> AnalysisTotalValue(analysis)]

\* get_rebalancing_suggestions is called with one of Targets
RebalanceInit ==
  /\ AnalyzerInit({FALSE})
  /\ target_allocation \in Targets
  /\ rebalancing = Pending
  /\ NoFormatting
  /\ NoChat
  /\ NoApi

\* lines 312-339: analyze_portfolio has returned (or raised, which
\* get_rebalancing_suggestions lets through)
Suggest(c) ==
  /\ pc[c] = "done"
  /\ rebalancing = Pending
  /\ rebalancing' = IF "raised" \in DOMAIN result[c] THEN result[c]
                    ELSE RebalancingResult(result[c], target_allocation)
  /\ UNCHANGED <<target_allocation, notRebalanceVars>>

(***************************************************************************)
(* analyze and _format_analysis                                            *)
(***************************************************************************)
\* asset_type.title()
Title(asset_type) ==
  CASE asset_type \in {"stock", "STOCK", "Stock"} -> "Stock"
    [] asset_type = "bond" -> "Bond"
    [] OTHER -> asset_type

\* the fields of a line of text: the literal it starts with and the values
\* it interpolates
Line(literal, values) == [line |-> literal, values |-> values]

\* lines 265-297: the sections of a report; the values are the dict's or the
\* defaults of its .get calls, the allocation lines keyed by asset type
ReportLines(analysis) ==
  LET summary == IF "summary" \in DOMAIN analysis THEN analysis.summary ELSE <<>>
      risk == IF "risk_metrics" \in DOMAIN analysis THEN analysis.risk_metrics ELSE <<>>
      recommendations ==
        IF "recommendations" \in DOMAIN analysis THEN analysis.recommendations ELSE <<>>
      allocation == AnalysisAllocation(analysis)
  IN  << Line("=== Portfolio Analysis ===", <<>>),
         Line("SUMMARY", <<>>),
         Line("Total Invested: ", <<DictGet(summary, "total_invested", 0)>>),
         Line("Current Value: ", <<DictGet(summary, "current_value", 0)>>),
         Line("Total Return: ", <<DictGet(summary, "total_gain_loss", 0),
                                  DictGet(summary, "total_return_percent", 0)>>),
         Line("Holdings: ", <<DictGet(summary, "number_of_holdings", 0)>>),
         Line("RISK ASSESSMENT", <<>>),
         Line("Risk Level: ", <<DictGet(risk, "risk_level", "Unknown")>>),
         Line("Diversification Score: ", <<DictGet(risk, "diversification_score", 0)>>),
         Line("ALLOCATION",
              [a \in DOMAIN allocation |-> <<Title(a), RoundHalfEven(allocation[a], 10)>>]),
         Line("RECOMMENDATIONS", recommendations) >>

\* variant: no test for "error"
_format_analysis_Unguarded(analysis) == ReportLines(analysis)

\* _format_analysis
_format_analysis(analysis) ==
  IF "error" \in DOMAIN analysis
  THEN <<Line("Analysis Error: ", <<analysis.error>>)>>
  ELSE ReportLines(analysis)

\* lines 42-51 of analyze: analyze_portfolio has returned or raised
Format(c) ==
  /\ pc[c] = "done"
  /\ formatted = <<>>
  /\ formatted' = IF "raised" \in DOMAIN result[c]
                  THEN <<Line("Error analyzing portfolio: ", <<result[c].raised>>)>>
                  ELSE _format_analysis(result[c])
  /\ UNCHANGED notFormatVars

(***************************************************************************)
(* Minimal app (main_minimal.py): POST /api/chat                           *)
(***************************************************************************)
ChatMessages == {"Hello", "How should I invest?"}

\* what groq_client.chat.completions.create can do: return a completion
\* whose first choice has a text or None as content, or raise
CreateOutcomes ==
  { [kind |-> "completion", has_content |-> TRUE, text |-> s] :
      s \in {"This is a test financial advice", "Error in your plan"} }
  \cup { [kind |-> "completion", has_content |-> FALSE, text |-> ""] }
  \cup { [kind |-> "raise", class |-> "Exception", text |-> s, status_code |-> 0] :
           s \in {"API Error", "timeout"} }
  \cup { [kind |-> "raise", class |-> "HTTPException", text |-> "rate limited",
          status_code |-> 429] }

\* `from groq import Groq; Groq(api_key=...)` returns the client or raises
\* (ImportError when the package is missing)
ClientOutcomes ==
  { [kind |-> "client"],
    [kind |-> "raise", class |-> "Exception", text |-> "No module named groq",
     status_code |-> 0] }

\* a str: what it starts with and the text interpolated after it
Str(prefix, text) == [prefix |-> prefix, text |-> text]

\* the JSON answer of the endpoint for a ChatResponse
ChatResponse(response, model) ==
  [status_code |-> 200, body |-> [response |-> response, model |-> model]]

\* the answer FastAPI gives for a raised HTTPException
HTTPError(status_code, detail) ==
  [status_code |-> status_code, body |-> [detail |-> detail]]

\* the two except clauses of chat (lines 183-186)
ChatCaught(raised) ==
  IF raised.class = "HTTPException"
  THEN HTTPError(raised.status_code, raised.text)
  ELSE ChatResponse(Str("Error: ", raised.text), "error")

\* variant: no `except Exception` clause; the server answers 500
ChatAnswer_Unhandled(outcome) ==
  IF outcome.kind = "raise"
  THEN IF outcome.class = "HTTPException"
       THEN HTTPError(outcome.status_code, outcome.text)
       ELSE HTTPError(500, "Internal Server Error")
  ELSE IF outcome.has_content
       THEN ChatResponse(Str("", outcome.text), "llama-3.3-70b-versatile")
       ELSE HTTPError(500, "Internal Server Error")

\* lines 170-186: the answer of chat for what create did; a content of
\* None fails the validation of ChatResponse(response: str) inside the try
ChatAnswer(outcome) ==
  IF outcome.kind = "raise" THEN ChatCaught(outcome)
  ELSE IF outcome.has_content
       THEN ChatResponse(Str("", outcome.text), "llama-3.3-70b-versatile")
       ELSE ChatCaught([kind |-> "raise", class |-> "Exception",
                        text |-> "validation error", status_code |-> 0])

\* a POST /api/chat arrives (one request is served at a time)
ChatPost ==
  /\ chat.pc \in {"idle", "answered"}
  /\ nchat < MaxChatRequests
  /\ nchat' = nchat + 1
  /\ \E m \in ChatMessages : chat' = [pc |-> "client", message |-> m]
  /\ UNCHANGED <<settings, _groq_client, notChatVars>>

\* get_groq_client (lines 98-111), called inside the try of chat
GetGroqClient ==
  /\ chat.pc = "client"
  /\ IF _groq_client # "None"
     THEN /\ chat' = [chat EXCEPT !.pc = "call"]
          /\ UNCHANGED _groq_client
     ELSE IF settings.GROQ_API_KEY = ""
     THEN /\ chat' = [pc |-> "answered", message |-> chat.message,
                      outcome |-> [kind |-> "raise", class |-> "HTTPException",
                                   text |-> "LLM service not configured. Please set GROQ_API_KEY environment variable.",
                                   status_code |-> 503],
                      called |-> FALSE,
                      response |-> HTTPError(503, "LLM service not configured. Please set GROQ_API_KEY environment variable.")]
          /\ UNCHANGED _groq_client
     ELSE \E made \in ClientOutcomes :
            IF made.kind = "raise"
            THEN /\ chat' = [pc |-> "answered", message |-> chat.message,
                             outcome |-> made, called |-> FALSE,
                             response |-> ChatCaught(made)]
                 /\ UNCHANGED _groq_client
            ELSE /\ chat' = [chat EXCEPT !.pc = "call"]
                 /\ _groq_client' = "Groq"
  /\ UNCHANGED <<settings, nchat, notChatVars>>

\* lines 170-186: the call of the LLM client and the answer
CallGroq ==
  /\ chat.pc = "call"
  /\ \E outcome \in CreateOutcomes :
       chat' = [pc |-> "answered", message |-> chat.message, outcome |-> outcome,
                called |-> TRUE, response |-> ChatAnswer(outcome)]
  /\ UNCHANGED <<settings, _groq_client, nchat, notChatVars>>

\* the app is loaded with or without an API key in its settings
ChatInit ==
  /\ AnalyzerInit({FALSE})
  /\ NoRebalancing
  /\ NoFormatting
  /\ settings \in { [GROQ_API_KEY |-> k] : k \in {"", "test-key"} }
  /\ _groq_client = "None"
  /\ chat = [pc |-> "idle"]
  /\ nchat = 0
  /\ NoApi

ChatNext ==
  \/ ChatPost
  \/ GetGroqClient
  \/ CallGroq

SpecChat == ChatInit /\ [][ChatNext]_vars

(***************************************************************************)
(* api/v1/portfolio.py: add_holding, update_holding, delete_holding        *)
(* quantity in tenths, average_price in cents, invested values in mills    *)
(***************************************************************************)
HoldingQuantities == {10, 25}
HoldingPrices == {10000, 15050}
HoldingIds == 1..MaxHoldingRequests

\* HoldingCreate: quantity and average_price are validated gt=0
HoldingCreates ==
  { [quantity |-> q, average_price |-> p] :
      q \in HoldingQuantities, p \in HoldingPrices }

\* HoldingUpdate as request.dict(exclude_unset=True): only the fields sent
HoldingUpdates ==
  { [quantity |-> q] : q \in HoldingQuantities }
  \cup { [average_price |-> p] : p \in HoldingPrices }
  \cup { [quantity |-> q, average_price |-> p] :
           q \in HoldingQuantities, p \in HoldingPrices }
  \cup { [notes |-> "long term"] }

\* the rows of the holdings table with the given id removed
WithoutRow(holdings, holding_id) ==
  [i \in DOMAIN holdings \ {holding_id} |-> holdings[i]]

\* lines 243-266
AfterAdd(d, request) ==
  LET invested_value == request.quantity * request.average_price
      holding == [quantity |-> request.quantity,
                  average_price |-> request.average_price,
                  invested_value |-> invested_value,
                  notes |-> "None"]
  IN [total_invested |-> d.total_invested + invested_value,
      holdings |-> (d.next_id :> holding) @@ d.holdings,
      next_id |-> d.next_id + 1]

\* lines 310-317: setattr of each field sent
UpdatedFields(holding, update_data) ==
  [f \in DOMAIN holding |->
     IF f \in DOMAIN update_data THEN update_data[f] ELSE holding[f]]

\* lines 310-322: portfolio.total_invested is not assigned
AfterUpdate(d, holding_id, update_data) ==
  LET set == UpdatedFields(d.holdings[holding_id], update_data)
      holding ==
        IF "quantity" \in DOMAIN update_data \/ "average_price" \in DOMAIN update_data
        THEN [set EXCEPT !.invested_value = set.quantity * set.average_price]
        ELSE set
  IN [d EXCEPT !.holdings[holding_id] = holding]

\* lines 365-371
AfterDelete(d, holding_id) ==
  [d EXCEPT !.total_invested = d.total_invested - d.holdings[holding_id].invested_value,
            !.holdings = WithoutRow(d.holdings, holding_id)]

\* POST /{portfolio_id}/holdings
add_holding ==
  /\ nrequests < MaxHoldingRequests
  /\ nrequests' = nrequests + 1
  /\ \E request \in HoldingCreates : db' = AfterAdd(db, request)
  /\ UNCHANGED notHoldingVars

\* PUT /{portfolio_id}/holdings/{holding_id}; 404 when there is no such row
update_holding ==
  /\ nrequests < MaxHoldingRequests
  /\ nrequests' = nrequests + 1
  /\ \E holding_id \in HoldingIds, request \in HoldingUpdates :
       IF holding_id \in DOMAIN db.holdings
       THEN db' = AfterUpdate(db, holding_id, request)
       ELSE UNCHANGED db
  /\ UNCHANGED notHoldingVars

\* DELETE /{portfolio_id}/holdings/{holding_id}; 404 when there is no such row
delete_holding ==
  /\ nrequests < MaxHoldingRequests
  /\ nrequests' = nrequests + 1
  /\ \E holding_id \in HoldingIds :
       IF holding_id \in DOMAIN db.holdings
       THEN db' = AfterDelete(db, holding_id)
       ELSE UNCHANGED db
  /\ UNCHANGED notHoldingVars

HoldingsInit ==
  /\ AnalyzerInit({FALSE})
  /\ NoRebalancing
  /\ NoFormatting
  /\ NoChat
  /\ NoHoldingRows
  /\ NoRequests
  /\ NoAuth
  /\ NoMemories

HoldingsNext ==
  \/ add_holding
  \/ update_holding
  \/ delete_holding

SpecHoldings == HoldingsInit /\ [][HoldingsNext]_vars

(***************************************************************************)
(* middleware/rate_limit.py: RateLimitMiddleware                           *)
(***************************************************************************)
Clients == {"10.0.0.1", "10.0.0.2"}

\* the readings of time.time(), in seconds, at which something happens
Instants == {0, 60, 3599, 3600}

\* settings.RATE_LIMIT_PER_MINUTE and settings.RATE_LIMIT_PER_HOUR
Limits ==
  { [minute_limit |-> 1, hour_limit |-> 2], [minute_limit |-> 2, hour_limit |-> 3] }

\* self.request_counts.get(client_ip, [])
RequestsOf(request_counts, client_ip) ==
  IF client_ip \in DOMAIN request_counts THEN request_counts[client_ip] ELSE <<>>

\* sum(1 for ts in requests if ts > since)
CountSince(reqs, since) == Cardinality({ i \in DOMAIN reqs : reqs[i] > since })

\* variant: a client at the limit is still let through
_check_rate_limit_Lenient(mw, client_ip, current_time) ==
  LET reqs == RequestsOf(mw.request_counts, client_ip)
  IN IF CountSince(reqs, current_time - 60) > mw.minute_limit THEN FALSE
     ELSE IF CountSince(reqs, current_time - 3600) > mw.hour_limit THEN FALSE
     ELSE TRUE

\* lines 82-101
_check_rate_limit(mw, client_ip, current_time) ==
  LET minute_ago == current_time - 60
      hour_ago == current_time - 3600
      reqs == RequestsOf(mw.request_counts, client_ip)
      minute_count == CountSince(reqs, minute_ago)
      hour_count == CountSince(reqs, hour_ago)
  IN IF minute_count >= mw.minute_limit THEN FALSE
     ELSE IF hour_count >= mw.hour_limit THEN FALSE
     ELSE TRUE

KeepSince(reqs, since) == SelectSeq(reqs, LAMBDA ts : ts > since)

\* lines 103-115; request_counts is a defaultdict(list)
_record_request(mw, client_ip, current_time) ==
  LET hour_ago == current_time - 3600
      appended == Append(RequestsOf(mw.request_counts, client_ip), current_time)
  IN [mw EXCEPT !.request_counts =
        (client_ip :> KeepSince(appended, hour_ago)) @@ mw.request_counts]

\* variant: the request is recorded before the limits are checked
DispatchOutcome_RecordFirst(mw, client_ip, checked_at, recorded_at) ==
  LET recorded == _record_request(mw, client_ip, recorded_at)
  IN IF ~_check_rate_limit(recorded, client_ip, recorded_at)
     THEN [middleware |-> recorded,
           request |-> [client_ip |-> client_ip, arrived |-> checked_at,
                        ts |-> recorded_at, pc |-> "responded", status_code |-> 429]]
     ELSE [middleware |-> recorded,
           request |-> [client_ip |-> client_ip, arrived |-> checked_at,
                        ts |-> recorded_at, pc |-> "call_next", status_code |-> 0]]

\* dispatch, lines 36-55, up to its await: no other request runs between
\* _check_rate_limit and _record_request; each of the two reads the clock
DispatchOutcome(mw, client_ip, checked_at, recorded_at) ==
  IF ~_check_rate_limit(mw, client_ip, checked_at)
  THEN [middleware |-> mw,
        request |-> [client_ip |-> client_ip, arrived |-> checked_at,
                     ts |-> checked_at, pc |-> "responded", status_code |-> 429]]
  ELSE [middleware |-> _record_request(mw, client_ip, recorded_at),
        request |-> [client_ip |-> client_ip, arrived |-> checked_at,
                     ts |-> recorded_at, pc |-> "call_next", status_code |-> 0]]

\* the clock readings from t on, up to the next instant
SoonAfter(t) ==
  { u \in Instants : u >= t /\ \A v \in Instants : (v > t) => (u <= v) }

\* a request of a client reaches dispatch
Dispatch ==
  /\ Len(requests) < MaxDispatches
  /\ \E client_ip \in Clients, recorded_at \in SoonAfter(time) :
       LET after == DispatchOutcome(middleware, client_ip, time, recorded_at)
       IN /\ middleware' = after.middleware
          /\ requests' = Append(requests, after.request)
          /\ time' = IF after.request.status_code = 429 THEN time ELSE recorded_at
  /\ UNCHANGED notLimitVars

\* lines 55-62: the application answers a request that was passed on (the
\* rate limit headers dispatch then adds are left out)
CallNextReturns ==
  /\ \E i \in DOMAIN requests :
       /\ requests[i].pc = "call_next"
       /\ requests' = [requests EXCEPT ![i].pc = "responded", ![i].status_code = 200]
  /\ UNCHANGED <<middleware, time, notLimitVars>>

\* time passes
Tick ==
  /\ \E t \in Instants : t > time /\ time' = t
  /\ UNCHANGED <<middleware, requests, notLimitVars>>

LimitInit ==
  /\ AnalyzerInit({FALSE})
  /\ NoRebalancing
  /\ NoFormatting
  /\ NoChat
  /\ NoHoldingRows
  /\ NoAuth
  /\ NoMemories
  /\ \E l \in Limits :
       middleware = [request_counts |-> <<>>, minute_limit |-> l.minute_limit,
                     hour_limit |-> l.hour_limit]
  /\ time = 0
  /\ requests = <<>>

LimitNext ==
  \/ Dispatch
  \/ CallNextReturns
  \/ Tick

SpecLimit == LimitInit /\ [][LimitNext]_vars

(***************************************************************************)
(* core/auth.py: get_current_user                                          *)
(***************************************************************************)
UserIds == {1, 2}

\* the users table: the rows that exist, each active or disabled
UserTables ==
  UNION { [ids -> [is_active : BOOLEAN]] : ids \in SUBSET UserIds }

\* `sub' claims: str(user.id) as create_access_token is given it, the id of
\* no user, and a text that is not a number
Subs == {"1", "2", "3", "abc"}

\* a token: whether jwt.decode accepts it (signature, expiry), and its payload
Tokens ==
  { [decodable |-> FALSE, payload |-> [exp |-> 0]] }
  \cup { [decodable |-> TRUE, payload |-> [exp |-> 1]] }
  \cup { [decodable |-> TRUE, payload |-> [exp |-> 1, sub |-> s]] : s \in Subs }

NoPayload == [none |-> TRUE]

\* lines 59-72
decode_access_token(token) ==
  IF token.decodable THEN token.payload ELSE NoPayload

\* lines 82-86
credentials_exception ==
  [status_code |-> 401, detail |-> "Could not validate credentials"]

IsNumber(s) == s \in {"1", "2", "3"}
IntOf(s) == CASE s = "1" -> 1 [] s = "2" -> 2 [] s = "3" -> 3

\* lines 100-113, the body of the try: what it returns or raises
FetchUser(user_id, table) ==
  IF ~IsNumber(user_id)
  THEN [raised |-> [status_code |-> 0, detail |-> "ValueError"]]
  ELSE IF IntOf(user_id) \notin DOMAIN table
  THEN [raised |-> credentials_exception]
  ELSE IF ~table[IntOf(user_id)].is_active
  THEN [raised |-> [status_code |-> 403, detail |-> "User account is disabled"]]
  ELSE [user |-> IntOf(user_id)]

\* lines 75-117; `except Exception' (lines 115-117) also catches the
\* HTTPExceptions raised inside the try
get_current_user(token, table) ==
  LET payload == decode_access_token(token)
  IN IF payload = NoPayload THEN [raised |-> credentials_exception]
     ELSE IF "sub" \notin DOMAIN payload THEN [raised |-> credentials_exception]
     ELSE LET fetched == FetchUser(payload.sub, table)
          IN IF "raised" \in DOMAIN fetched
             THEN [raised |-> credentials_exception]
             ELSE fetched

\* an endpoint calls get_current_user with the bearer token of a request
GetCurrentUser ==
  /\ nauth < MaxAuthCalls
  /\ nauth' = nauth + 1
  /\ \E token \in Tokens :
       auth' = [pc |-> "returned", token |-> token,
                result |-> get_current_user(token, users)]
  /\ UNCHANGED <<users, notAuthVars>>

AuthInit ==
  /\ AnalyzerInit({FALSE})
  /\ NoRebalancing
  /\ NoFormatting
  /\ NoChat
  /\ NoHoldingRows
  /\ NoRequests
  /\ NoMemories
  /\ users \in UserTables
  /\ auth = [pc |-> "idle"]
  /\ nauth = 0

AuthNext == GetCurrentUser

SpecAuth == AuthInit /\ [][AuthNext]_vars

(***************************************************************************)
(* services/llm.py: LLMService.process_message and the users' memories     *)
(* The content of an entry is the number of its exchange: the entries of   *)
(* one exchange are the user's message and the assistant's response to it. *)
(***************************************************************************)
LLMUsers == {"alice", "bob"}

\* the entries history.append adds for an exchange (lines 166-167)
Exchange(n) ==
  << [role |-> "user", content |-> n], [role |-> "assistant", content |-> n] >>

RECURSIVE Exchanges(_, _)
\* the entries of exchanges from..to, in order
Exchanges(from, to) ==
  IF from > to THEN <<>> ELSE Exchange(from) \o Exchanges(from + 1, to)

\* how many exchanges a user has had before the calls that are modelled
EarlierExchanges == {19, 20}

\* seq[-n:]
LastOf(seq, n) ==
  IF Len(seq) <= n THEN seq ELSE SubSeq(seq, Len(seq) - n + 1, Len(seq))

\* lines 115-119
get_or_create_memory(mems, user_id) ==
  IF user_id \notin DOMAIN mems THEN (user_id :> <<>>) @@ mems ELSE mems

\* variant: the memory is never cut
KeepBounded_Never(history) == history

\* lines 169-171
KeepBounded(history) ==
  IF Len(history) > 40 THEN LastOf(history, 40) ELSE history

\* what the awaited calls of process_message do: _check_and_use_tools
\* raises or returns, then _generate_response raises or returns a text
CallOutcomes ==
  { [tools |-> "raise", generate |-> "none"],
    [tools |-> "return", generate |-> "raise"],
    [tools |-> "return", generate |-> "response"] }

\* lines 138-193: self.memories after the call.  Neither awaited coroutine
\* awaits anything itself (their calls of the client and of the market
\* service are synchronous), so a call runs from start to end without
\* another call of process_message in between.
process_message(mems, user_id, n, outcome) ==
  LET created == get_or_create_memory(mems, user_id)
  IN IF outcome.generate # "response" THEN created
     ELSE [created EXCEPT ![user_id] = KeepBounded(created[user_id] \o Exchange(n))]

\* the number of the next exchange of a user
NextExchange(user_id) == Len(exchanges[user_id]) \div 2 + 1

ProcessMessage ==
  /\ Len(llm_calls) < MaxLLMCalls
  /\ \E user_id \in LLMUsers, outcome \in CallOutcomes :
       /\ memories' = process_message(memories, user_id, NextExchange(user_id), outcome)
       /\ llm_calls' = Append(llm_calls, [user_id |-> user_id, outcome |-> outcome])
       /\ exchanges' =
            IF outcome.generate = "response"
            THEN [exchanges EXCEPT ![user_id] = @ \o Exchange(NextExchange(user_id))]
            ELSE exchanges
  /\ UNCHANGED notMemoryVars

\* clear_user_memory, lines 394-397
ClearUserMemory ==
  /\ \E user_id \in DOMAIN memories :
       /\ memories' = [u \in DOMAIN memories \ {user_id} |-> memories[u]]
       /\ exchanges' = [exchanges EXCEPT ![user_id] = <<>>]
  /\ UNCHANGED <<llm_calls, notMemoryVars>>

\* the service has served some users before: each user has no memory yet
\* or the memory of its earlier exchanges
MemoryInit ==
  /\ AnalyzerInit({FALSE})
  /\ NoRebalancing
  /\ NoFormatting
  /\ NoChat
  /\ NoHoldingRows
  /\ NoRequests
  /\ NoAuth
  /\ \E known \in SUBSET LLMUsers, had \in [LLMUsers -> EarlierExchanges] :
       /\ memories = [u \in known |-> Exchanges(1, had[u])]
       /\ exchanges = [u \in LLMUsers |->
                         IF u \in known THEN Exchanges(1, had[u]) ELSE <<>>]
  /\ llm_calls = <<>>

MemoryNext ==
  \/ ProcessMessage
  \/ ClearUserMemory

SpecMemory == MemoryInit /\ [][MemoryNext]_vars

(***************************************************************************)
(* Specifications                                                          *)
(***************************************************************************)
\* calls made one after another on one analyzer
Next ==
  \/ StartCall(1, SeqInputs, MaxCalls)
  \/ Lookup(1)
  \/ ProcessHolding(1)
  \/ Finish(1)

Spec == Init /\ [][Next]_vars

\* one call on the mock provider, over portfolios of many small positions
SumInit == InitWith({FALSE})

SumNext ==
  \/ StartCall(1, SumInputs, 1)
  \/ Lookup(1)
  \/ ProcessHolding(1)
  \/ Finish(1)

SpecSum == SumInit /\ [][SumNext]_vars

\* one call on the mock provider, over positions of chosen sizes: the
\* weights the risk thresholds are about
RiskInit == InitWith({FALSE})

RiskNext ==
  \/ StartCall(1, RiskInputs, 1)
  \/ Lookup(1)
  \/ ProcessHolding(1)
  \/ Finish(1)

SpecRisk == RiskInit /\ [][RiskNext]_vars

\* one call on the mock provider, over equal positions of chosen asset
\* types and purchase prices: the conditions of the recommendation rules
RecInit == InitWith({FALSE})

RecNext ==
  \/ StartCall(1, RecInputs, 1)
  \/ Lookup(1)
  \/ ProcessHolding(1)
  \/ Finish(1)

SpecRec == RecInit /\ [][RecNext]_vars

\* one call on the yfinance provider, over positions bought above the
\* market: the holdings the losers rule is about
LoserInit == InitWith({TRUE})

LoserNext ==
  \/ StartCall(1, LoserInputs, 1)
  \/ Lookup(1)
  \/ ProcessHolding(1)
  \/ Finish(1)

SpecLosers == LoserInit /\ [][LoserNext]_vars

\* one call of get_rebalancing_suggestions on the mock provider
RebalanceNext ==
  \/ StartCall(1, RebalanceInputs, 1)
  \/ Lookup(1)
  \/ ProcessHolding(1)
  \/ Finish(1)
  \/ Suggest(1)

SpecRebalance == RebalanceInit /\ [][RebalanceNext]_vars

\* one call of analyze
FormatNext ==
  \/ StartCall(1, SeqInputs, 1)
  \/ Lookup(1)
  \/ ProcessHolding(1)
  \/ Finish(1)
  \/ Format(1)

SpecFormat == Init /\ [][FormatNext]_vars

\* calls running interleaved on one analyzer, on the mock provider
ConcNext ==
  \E c \in Calls :
    \/ StartCall(c, ConcInputs, MaxConcCalls)
    \/ Lookup(c)
    \/ ProcessHolding(c)
    \/ Finish(c)

ConcInit == InitWith({FALSE})

SpecConc == ConcInit /\ [][ConcNext]_vars

(***************************************************************************)
(* Properties                                                              *)
(***************************************************************************)
Returned(c) == pc[c] = "done"
IsAnalysis(r) == "summary" \in DOMAIN r
Input(c) == PortfolioHoldings(portfolio[c])

\* call c returned a full analysis
Analysed(c) == Returned(c) /\ IsAnalysis(result[c])

RECURSIVE SumFcn(_)
SumFcn(f) ==
  IF DOMAIN f = {} THEN 0
  ELSE LET x == CHOOSE y \in DOMAIN f : TRUE
       IN  f[x] + SumFcn([y \in DOMAIN f \ {x} |-> f[y]])

\* C1: a call on a portfolio whose holdings are empty or absent returns
\* exactly {"error": "No holdings found in portfolio"}, having made no price
\* lookup and computed nothing
C1_EmptyPortfolioIsError ==
  \A c \in Calls :
    (Returned(c) /\ Input(c) = <<>>) =>
      /\ result[c] = NoHoldingsError
      /\ DOMAIN result[c] = {"error"}
      /\ lookups[c] = <<>>
      /\ answers[c] = <<>>
      /\ frame[c] = InitialFrame

C1_Witness ==
  /\ Returned(1)
  /\ "holdings" \in DOMAIN portfolio[1]
  /\ portfolio[1].holdings = <<>>
  /\ result[1] = NoHoldingsError

AllocationSum(c) == SumFcn(result[c].allocation)

\* C2 as stated: with a total current value > 0 the allocation percentages
\* sum to 100 within 0.01, for any number of asset types
C2_AllocationWithinOneHundredth ==
  \A c \in Calls :
    (Analysed(c) /\ frame[c].total_value > 0) =>
      Abs(AllocationSum(c) - 10000) <= 1

\* C2 amended: with a total current value > 0 the allocation percentages sum
\* to 100 within 0.005 per distinct asset type
C2_AllocationWithinHalfPerType ==
  \A c \in Calls :
    (Analysed(c) /\ frame[c].total_value > 0) =>
      2 * Abs(AllocationSum(c) - 10000) <= Cardinality(DOMAIN result[c].allocation)

C2_Witness ==
  /\ Analysed(1)
  /\ frame[1].total_value > 0
  /\ Cardinality(DOMAIN result[1].allocation) >= 3
  /\ AllocationSum(1) # 10000

WeightSum(c) == SumSeq(Weights(result[c].holdings))

\* the sum of the reported (rounded to cents) current values of call c
ReportedValueSum(c) ==
  SumSeq([k \in 1..Len(result[c].holdings) |-> result[c].holdings[k].current_value])

NoPrice(price_data) == "price" \notin DOMAIN price_data

\* C4: whichever lookups of a call fail, the call returns a full analysis
\* holding every input holding, the failed ones at their average_price and
\* the others at the fetched price
C4_LookupFailuresContained ==
  \A c \in Calls :
    (Returned(c) /\ Input(c) # <<>>) =>
      /\ IsAnalysis(result[c])
      /\ Len(result[c].holdings) = Len(Input(c))
      /\ Len(answers[c]) = Len(Input(c))
      /\ \A k \in 1..Len(Input(c)) :
           result[c].holdings[k].current_price =
             IF NoPrice(answers[c][k]) THEN Input(c)[k].average_price
             ELSE answers[c][k].price

C4_Witness ==
  /\ Analysed(1)
  /\ \E j, k \in 1..Len(answers[1]) :
       /\ "error" \in DOMAIN answers[1][j]
       /\ ~NoPrice(answers[1][k])
       /\ answers[1][k].price # Input(1)[k].average_price

\* C5: a holding whose lookup answer has no price is reported at its
\* average_price: current_value equals invested_value, gain_loss and
\* gain_loss_percent are 0
C5_FallbackIsFlat ==
  \A c \in Calls :
    Analysed(c) =>
      \A k \in 1..Len(result[c].holdings) :
        (k <= Len(answers[c]) /\ NoPrice(answers[c][k])) =>
          LET h == result[c].holdings[k]
          IN  /\ h.current_price = Input(c)[k].average_price
              /\ h.current_value = h.invested_value
              /\ h.gain_loss = 0
              /\ h.gain_loss_percent = 0

C5_Witness ==
  /\ Analysed(1)
  /\ \E k \in 1..Len(answers[1]) :
       /\ NoPrice(answers[1][k])
       /\ Input(1)[k].average_price > 0
       /\ result[1].holdings[k].invested_value > 0

\* C6: no zero denominator makes a call raise: a call on a non-empty
\* portfolio returns a full analysis in which a holding with
\* quantity * average_price = 0 has gain_loss_percent 0, a total current
\* value of 0 gives every weight and allocation percentage 0, and a
\* total_invested of 0 gives total_return_percent 0
C6_ZeroDenominators ==
  \A c \in Calls :
    (Returned(c) /\ Input(c) # <<>>) =>
      /\ IsAnalysis(result[c])
      /\ \A k \in 1..Len(result[c].holdings) :
           (Input(c)[k].quantity * Input(c)[k].average_price = 0) =>
             result[c].holdings[k].gain_loss_percent = 0
      /\ (frame[c].total_value = 0) =>
           /\ \A k \in 1..Len(result[c].holdings) : result[c].holdings[k].weight = 0
           /\ \A t \in DOMAIN result[c].allocation : result[c].allocation[t] = 0
      /\ (frame[c].total_invested = 0) => result[c].summary.total_return_percent = 0

C6_Witness ==
  /\ Analysed(1)
  /\ frame[1].total_value = 0
  /\ frame[1].total_invested = 0
  /\ Len(result[1].holdings) >= 2
  /\ DOMAIN result[1].allocation # {}

\* C7: the returned holdings are the input holdings one for one and in
\* input order, and number_of_holdings and number_of_positions are the
\* number of input holdings
C7_HoldingsInInputOrder ==
  \A c \in Calls :
    Analysed(c) =>
      /\ Len(result[c].holdings) = Len(Input(c))
      /\ \A k \in 1..Len(Input(c)) :
           /\ result[c].holdings[k].symbol = Input(c)[k].symbol
           /\ result[c].holdings[k].quantity = Input(c)[k].quantity
           /\ result[c].holdings[k].average_price = Input(c)[k].average_price
      /\ result[c].summary.number_of_holdings = Len(Input(c))
      /\ result[c].risk_metrics.number_of_positions = Len(Input(c))

C7_Witness ==
  /\ Analysed(1)
  /\ Len(Input(1)) = 2
  /\ Input(1)[1].symbol = Input(1)[2].symbol
  /\ Input(1)[1].quantity > Input(1)[2].quantity

\* C8: a call changes nothing but the clock and the price source's
\* requests: the analyzer's fields stay as constructed, the portfolio passed
\* in stays as it was, and the call that returns an analysis has made one
\* lookup per input holding, in input order
C8_OnlyLookups ==
  [][ /\ market_data' = market_data
      /\ \A c \in Calls :
           /\ pc[c] \in {"loop", "process"} => portfolio'[c] = portfolio[c]
           /\ (pc'[c] = "done" /\ IsAnalysis(result'[c])) =>
                lookups'[c] = [k \in 1..Len(PortfolioHoldings(portfolio'[c])) |->
                                 PortfolioHoldings(portfolio'[c])[k].symbol] ]_vars

C8_Witness ==
  /\ Analysed(1)
  /\ ncalls = 2
  /\ Len(lookups[1]) = 2
  /\ lookups[1][1] = lookups[1][2]

\* a price answer without the time it was given at
AnswerCore(price_data) == [k \in DOMAIN price_data \ {"timestamp"} |-> price_data[k]]

AnswerCores(c) == [k \in 1..Len(answers[c]) |-> AnswerCore(answers[c][k])]

\* a result without the time it was made at
WithoutTime(r) == IF IsAnalysis(r) THEN [r EXCEPT !.analyzed_at = 0] ELSE r

\* C9: two calls on the same portfolio that got the same price answers
\* return the same result but for analyzed_at, whatever calls came before
C9_SameInputsSameResult ==
  \A c, d \in Calls :
    (Returned(c) /\ Returned(d) /\ portfolio[c] = portfolio[d]
       /\ AnswerCores(c) = AnswerCores(d)) =>
      WithoutTime(result[c]) = WithoutTime(result[d])

C9_Witness ==
  /\ Analysed(1)
  /\ Analysed(2)
  /\ ncalls = 3
  /\ portfolio[1] = portfolio[2]
  /\ AnswerCores(1) = AnswerCores(2)
  /\ result[1].analyzed_at # result[2].analyzed_at

\* the locals of a call that ran alone on `holdings` and got `price_datas`
RECURSIVE RunAlone(_, _, _)
RunAlone(holdings, price_datas, n) ==
  IF n = 0 THEN InitialFrame
  ELSE FrameAfter(RunAlone(holdings, price_datas, n - 1), holdings[n],
                  HoldingEntry(holdings[n], price_datas[n]))

ResultAlone(holdings, price_datas, utcnow) ==
  LET f == RunAlone(holdings, price_datas, Len(holdings))
  IN  Assemble(holdings, f.holdings_analysis, f.allocation, f.total_value,
               f.total_invested, utcnow)

\* C10: with calls interleaved, every holding a call has handled carries
\* the price of the answer to the lookup that call made for it, and the
\* result of a call is the result of a call running alone with the same
\* answers
C10_InterleavedCallsIsolated ==
  \A c \in Calls :
    /\ pc[c] \in {"loop", "process", "done"} =>
         \A k \in 1..Len(frame[c].holdings_analysis) :
           frame[c].holdings_analysis[k].current_price =
             CurrentPrice(answers[c][k], Input(c)[k].average_price)
    /\ (Returned(c) /\ Input(c) # <<>>) =>
         /\ IsAnalysis(result[c])
         /\ result[c] = ResultAlone(Input(c), answers[c], result[c].analyzed_at)

\* call 1 has returned; the lookup of call 2, which is still running, was
\* answered after the lookup of call 1 and before call 1 returned, for the
\* same holding at another price
C10_Witness ==
  /\ Analysed(1)
  /\ pc[2] = "loop"
  /\ Len(frame[2].holdings_analysis) = 1
  /\ answers[1][1].timestamp < answers[2][1].timestamp
  /\ answers[2][1].timestamp < result[1].analyzed_at
  /\ Input(1)[1] = Input(2)[1]
  /\ frame[2].holdings_analysis[1].current_price # result[1].holdings[1].current_price

\* quantity * average_price and quantity * current_price of a reported
\* holding, exactly (in mills)
ExactInvested(h) == h.quantity * h.average_price
ExactCurrent(h) == h.quantity * h.current_price

\* a reported amount (cents) is the exact amount (mills) to two decimals
ToTwoDecimals(cents, mills) == Abs(10 * cents - mills) <= 5

\* C11 as stated: in every reported holding invested_value is
\* quantity * average_price and current_value is quantity * current_price
\* (to the two decimals reported), and the reported gain_loss is the reported
\* current_value minus the reported invested_value
C11_GainIsReportedDifference ==
  \A c \in Calls :
    Analysed(c) =>
      \A k \in 1..Len(result[c].holdings) :
        LET h == result[c].holdings[k]
        IN  /\ ToTwoDecimals(h.invested_value, ExactInvested(h))
            /\ ToTwoDecimals(h.current_value, ExactCurrent(h))
            /\ h.gain_loss = h.current_value - h.invested_value

\* C11 amended: invested_value, current_value and gain_loss are
\* quantity * average_price, quantity * current_price and their difference,
\* each rounded to two decimals on its own, so the reported gain_loss is
\* within 0.01 of the reported current_value minus the reported
\* invested_value
C11_GainIsRoundedDifference ==
  \A c \in Calls :
    Analysed(c) =>
      \A k \in 1..Len(result[c].holdings) :
        LET h == result[c].holdings[k]
        IN  /\ h.quantity = Input(c)[k].quantity
            /\ h.average_price = Input(c)[k].average_price
            /\ ToTwoDecimals(h.invested_value, ExactInvested(h))
            /\ ToTwoDecimals(h.current_value, ExactCurrent(h))
            /\ ToTwoDecimals(h.gain_loss, ExactCurrent(h) - ExactInvested(h))
            /\ Abs(h.gain_loss - (h.current_value - h.invested_value)) <= 1

C11_Witness ==
  /\ Analysed(1)
  /\ \E k \in 1..Len(result[1].holdings) :
       LET h == result[1].holdings[k]
       IN  /\ h.gain_loss > 0
           /\ h.gain_loss # h.current_value - h.invested_value

\* the sums over the input holdings of quantity * average_price and of
\* quantity * current_price, exactly (in mills)
SumInvested(c) ==
  SumSeq([k \in 1..Len(Input(c)) |-> Input(c)[k].quantity * Input(c)[k].average_price])
SumCurrent(c) ==
  SumSeq([k \in 1..Len(Input(c)) |->
            Input(c)[k].quantity * result[c].holdings[k].current_price])

\* a reported percentage (hundredths of a percent) is n / d * 100 to two
\* decimals, for d > 0
PercentToTwoDecimals(pct, n, d) == 2 * Abs(pct * d - 10000 * n) <= d

\* C12 as stated: total_invested and current_value are the sums over the
\* holdings of quantity * average_price and quantity * current_price (to
\* the two decimals reported), the reported total_gain_loss is the reported
\* current_value minus the reported total_invested, and
\* total_return_percent is total gain / total invested * 100
C12_TotalGainIsReportedDifference ==
  \A c \in Calls :
    Analysed(c) =>
      LET s == result[c].summary
      IN  /\ ToTwoDecimals(s.total_invested, SumInvested(c))
          /\ ToTwoDecimals(s.current_value, SumCurrent(c))
          /\ s.total_gain_loss = s.current_value - s.total_invested
          /\ SumInvested(c) > 0 =>
               PercentToTwoDecimals(s.total_return_percent,
                                    SumCurrent(c) - SumInvested(c), SumInvested(c))

\* C12 amended: total_invested, current_value and total_gain_loss are the
\* two sums and their difference, each rounded to two decimals on its own,
\* so the reported total_gain_loss is within 0.01 of the reported
\* current_value minus the reported total_invested; total_return_percent is
\* the unrounded gain over the unrounded total invested, times 100, rounded
\* to two decimals
C12_TotalGainIsRoundedDifference ==
  \A c \in Calls :
    Analysed(c) =>
      LET s == result[c].summary
      IN  /\ ToTwoDecimals(s.total_invested, SumInvested(c))
          /\ ToTwoDecimals(s.current_value, SumCurrent(c))
          /\ ToTwoDecimals(s.total_gain_loss, SumCurrent(c) - SumInvested(c))
          /\ Abs(s.total_gain_loss - (s.current_value - s.total_invested)) <= 1
          /\ SumInvested(c) > 0 =>
               PercentToTwoDecimals(s.total_return_percent,
                                    SumCurrent(c) - SumInvested(c), SumInvested(c))

C12_Witness ==
  /\ Analysed(1)
  /\ Len(result[1].holdings) = 2
  /\ result[1].summary.total_invested > 0
  /\ result[1].summary.total_return_percent # 0
  /\ result[1].summary.total_gain_loss #
       result[1].summary.current_value - result[1].summary.total_invested

Risk(c) == result[c].risk_metrics
TopWeight(c) == Risk(c).concentration_risk.top_holding_weight

\* C13: top_holding_weight is the largest weight among the returned
\* holdings, and (risk_level, risk_score) is ("High", 8) when it is above
\* 50, ("Medium", 5) when it is above 30 and at most 50, ("Low", 3)
\* otherwise: exactly 50 is Medium and exactly 30 is Low
C13_RiskLevelByTopWeight ==
  \A c \in Calls :
    Analysed(c) =>
      LET hs == result[c].holdings
          top == TopWeight(c)
          level == <<Risk(c).risk_level, Risk(c).risk_score>>
      IN  /\ \E k \in 1..Len(hs) : hs[k].weight = top
          /\ \A k \in 1..Len(hs) : hs[k].weight <= top
          /\ top > 5000 => level = <<"High", 8>>
          /\ (top > 3000 /\ top <= 5000) => level = <<"Medium", 5>>
          /\ top <= 3000 => level = <<"Low", 3>>

\* a top weight of exactly 30 among four holdings
C13_Witness ==
  /\ Analysed(1)
  /\ TopWeight(1) = 3000
  /\ Risk(1).risk_level = "Low"
  /\ Len(result[1].holdings) = 4

\* a top weight of exactly 50
C13_WitnessFifty ==
  /\ Analysed(1)
  /\ TopWeight(1) = 5000
  /\ Risk(1).risk_level = "Medium"

\* C14: concentration_risk.status is "High" exactly when
\* top_holding_weight is above 40 (exactly 40 is "Acceptable"), so
\* risk_level "High" comes with status "High" and risk_level "Low" with
\* status "Acceptable"
C14_StatusByTopWeight ==
  \A c \in Calls :
    Analysed(c) =>
      LET status == Risk(c).concentration_risk.status
      IN  /\ status = "High" <=> TopWeight(c) > 4000
          /\ status \in {"High", "Acceptable"}
          /\ Risk(c).risk_level = "High" => status = "High"
          /\ Risk(c).risk_level = "Low" => status = "Acceptable"

\* a top weight of exactly 40
C14_Witness ==
  /\ Analysed(1)
  /\ TopWeight(1) = 4000
  /\ Risk(1).concentration_risk.status = "Acceptable"
  /\ Risk(1).risk_level = "Medium"

\* a top weight between 40 and 50: risk_level "Medium" with status "High"
C14_WitnessMediumHigh ==
  /\ Analysed(1)
  /\ Risk(1).concentration_risk.status = "High"
  /\ Risk(1).risk_level = "Medium"

\* C15: diversification_score is 1 for a portfolio of one holding, and
\* otherwise min(10, holdings_count * (1 - top_holding_weight / 100)), to
\* the one decimal reported; it always lies between 0 and 10
C15_DiversificationInRange ==
  \A c \in Calls :
    Analysed(c) =>
      LET n == Len(result[c].holdings)
          score == Risk(c).diversification_score
      IN  /\ n = 1 => score = 10
          /\ n # 1 =>
               Abs(1000 * score - MinOf(100000, n * (10000 - TopWeight(c)))) <= 500
          /\ score >= 0
          /\ score <= 100

\* C16: a portfolio of one holding whose current value is above 0 is
\* reported with weight 100, diversification_score 1, risk_level "High",
\* risk_score 8 and concentration status "High"
C16_SingleHoldingIsWholePortfolio ==
  \A c \in Calls :
    (Analysed(c) /\ Len(Input(c)) = 1 /\ ExactCurrent(result[c].holdings[1]) > 0) =>
      /\ result[c].holdings[1].weight = 10000
      /\ Risk(c).diversification_score = 10
      /\ Risk(c).risk_level = "High"
      /\ Risk(c).risk_score = 8
      /\ Risk(c).concentration_risk.status = "High"

Recs(c) == result[c].recommendations

\* the rules that wrote the recommendations of call c, in list order
RecRules(c) == [k \in 1..Len(Recs(c)) |-> Recs(c)[k].rule]

HasRec(c, rule) == \E k \in 1..Len(Recs(c)) : Recs(c)[k].rule = rule

\* the reported percentage of an asset type, 0 when no holding has it
AllocationOf(c, t) ==
  IF t \in DOMAIN result[c].allocation THEN result[c].allocation[t] ELSE 0

\* the conditions of rules 1..5 on what call c reports
RuleCondition(c, rule) ==
  LET hs == result[c].holdings
  IN  CASE rule = "diversify" -> Len(hs) < 5
        [] rule = "concentration" -> TopWeight(c) > 4000
        [] rule = "stocks" -> AllocationOf(c, "stock") + AllocationOf(c, "STOCK") > 8000
        [] rule = "losers" -> \E k \in 1..Len(hs) : hs[k].gain_loss_percent < -2000
        [] rule = "winners" -> \E k \in 1..Len(hs) : hs[k].gain_loss_percent > 5000

RuleOrder == <<"diversify", "concentration", "stocks", "losers", "winners">>

\* the rules among the first n of RuleOrder whose condition holds, in order
RECURSIVE RulesThatHold(_, _)
RulesThatHold(c, n) ==
  IF n = 0 THEN <<>>
  ELSE RulesThatHold(c, n - 1) \o
         (IF RuleCondition(c, RuleOrder[n]) THEN <<RuleOrder[n]>> ELSE <<>>)

\* C17: the recommendations of a full analysis are never empty: they are
\* one entry per rule 1..5 whose condition holds, in rule order, and the
\* default message alone when no condition holds
C17_RecommendationsFollowRules ==
  \A c \in Calls :
    Analysed(c) =>
      /\ Recs(c) # <<>>
      /\ RecRules(c) = IF RulesThatHold(c, 5) = <<>> THEN <<"default">>
                       ELSE RulesThatHold(c, 5)
      /\ HasRec(c, "default") => Len(Recs(c)) = 1

\* all five rules fire on one portfolio
C17_Witness ==
  /\ Analysed(1)
  /\ RecRules(1) = RuleOrder

\* C18: the broader-diversification recommendation is there exactly when
\* the portfolio has fewer than 5 holdings; five holdings of equal weight
\* with no other threshold exceeded get the default message only
C18_DiversifyBelowFive ==
  \A c \in Calls :
    Analysed(c) =>
      /\ HasRec(c, "diversify") <=> Len(Input(c)) < 5
      /\ (Len(Input(c)) = 5 /\ \A k \in 2..5 : ~RuleCondition(c, RuleOrder[k])) =>
           Recs(c) = <<Rec("default", <<>>, 0)>>

\* five holdings of weight 20 each and the default message alone
C18_Witness ==
  /\ Analysed(1)
  /\ Len(Input(1)) = 5
  /\ \A k \in 1..5 : result[1].holdings[k].weight = 2000
  /\ RecRules(1) = <<"default">>

\* C19: exactly when top_holding_weight is above 40 the recommendations
\* hold one rebalancing suggestion; it names the first holding, in input
\* order, whose weight is top_holding_weight, and that weight (to the one
\* decimal the message prints)
C19_RebalancingNamesHeaviest ==
  \A c \in Calls :
    Analysed(c) =>
      LET hs == result[c].holdings
          named == { k \in 1..Len(Recs(c)) : Recs(c)[k].rule = "concentration" }
      IN  /\ named # {} <=> TopWeight(c) > 4000
          /\ Cardinality(named) <= 1
          /\ \A r \in named :
               /\ \E k \in 1..Len(hs) :
                    /\ hs[k].weight = TopWeight(c)
                    /\ \A l \in 1..(k - 1) : hs[l].weight < TopWeight(c)
                    /\ Recs(c)[r].symbols = <<Input(c)[k].symbol>>
               /\ Abs(10 * Recs(c)[r].weight - TopWeight(c)) <= 5

\* two holdings of different symbols tie at the top weight
C19_Witness ==
  /\ Analysed(1)
  /\ Len(Input(1)) = 2
  /\ Input(1)[1].symbol # Input(1)[2].symbol
  /\ result[1].holdings[1].weight = result[1].holdings[2].weight
  /\ TopWeight(1) > 4000
  /\ HasRec(1, "concentration")

\* C20: the keys of allocation are the asset types of the holdings as
\* given ("stock" and "STOCK" are two keys), and the add-bonds
\* recommendation is there exactly when allocation["stock"] +
\* allocation["STOCK"] is above 80: no other spelling counts
C20_StocksRuleCountsTwoKeys ==
  \A c \in Calls :
    Analysed(c) =>
      /\ DOMAIN result[c].allocation = { Input(c)[k].asset_type : k \in 1..Len(Input(c)) }
      /\ HasRec(c, "stocks") <=>
           AllocationOf(c, "stock") + AllocationOf(c, "STOCK") > 8000

\* "Stock" and "STOCK" together hold more than 80 percent and the
\* recommendation is not made
C20_Witness ==
  /\ Analysed(1)
  /\ AllocationOf(1, "Stock") > 0
  /\ AllocationOf(1, "STOCK") > 0
  /\ AllocationOf(1, "Stock") + AllocationOf(1, "STOCK") > 8000
  /\ ~HasRec(1, "stocks")

\* "stock" and "STOCK" are two keys of at most 80 percent each and of
\* more than 80 percent together, and the recommendation is made
C20_WitnessBothKeys ==
  /\ Analysed(1)
  /\ {"stock", "STOCK"} \subseteq DOMAIN result[1].allocation
  /\ result[1].allocation["stock"] <= 8000
  /\ result[1].allocation["STOCK"] <= 8000
  /\ HasRec(1, "stocks")

\* "stock" and "STOCK" hold exactly 80 percent together
C20_WitnessEighty ==
  /\ Analysed(1)
  /\ AllocationOf(1, "stock") + AllocationOf(1, "STOCK") = 8000
  /\ ~HasRec(1, "stocks")

\* the positions of the reported holdings of call c that lost more than 20
\* percent
Losers(c) ==
  { k \in 1..Len(result[c].holdings) : result[c].holdings[k].gain_loss_percent < -2000 }

\* C21: exactly when some holding has gain_loss_percent below -20 the
\* recommendations hold one review-underperformers entry; it lists the
\* symbols of the first min(3, k) of the k such holdings, in input order,
\* and of no other holding
C21_LosersListedFirstThree ==
  \A c \in Calls :
    Analysed(c) =>
      LET hs == result[c].holdings
          listed == { r \in 1..Len(Recs(c)) : Recs(c)[r].rule = "losers" }
      IN  /\ listed # {} <=> Losers(c) # {}
          /\ Cardinality(listed) <= 1
          /\ \A r \in listed :
               LET symbols == Recs(c)[r].symbols
               IN  /\ Len(symbols) = MinOf(3, Cardinality(Losers(c)))
                   /\ \A j \in 1..Len(symbols) :
                        \E i \in Losers(c) :
                          /\ Cardinality({ l \in Losers(c) : l <= i }) = j
                          /\ symbols[j] = Input(c)[i].symbol

\* four holdings lost more than 20 percent and three are listed
C21_Witness ==
  /\ Analysed(1)
  /\ Cardinality(Losers(1)) = 4
  /\ \E r \in 1..Len(Recs(1)) :
       Recs(1)[r].rule = "losers" /\ Len(Recs(1)[r].symbols) = 3

\* a holding that lost exactly 20 percent stands before two that lost more
C21_WitnessSkipped ==
  /\ Analysed(1)
  /\ result[1].holdings[1].gain_loss_percent = -2000
  /\ Cardinality(Losers(1)) = 2
  /\ HasRec(1, "losers")

\* the only holding lost exactly 20 percent
C21_WitnessTwenty ==
  /\ Analysed(1)
  /\ Len(result[1].holdings) = 1
  /\ result[1].holdings[1].gain_loss_percent = -2000
  /\ ~HasRec(1, "losers")

\* get_rebalancing_suggestions has returned its dict
Rebalanced == "suggestions" \in DOMAIN rebalancing

\* the target percentage of an asset type: a set of at most one element
TargetOf(a) ==
  { target_allocation[k].percent :
      k \in { j \in 1..Len(target_allocation) : target_allocation[j].asset_type = a } }

SuggestionsFor(a) ==
  { k \in 1..Len(rebalancing.suggestions) : rebalancing.suggestions[k].asset_type = a }

HeldTypes(c) == { Input(c)[k].asset_type : k \in 1..Len(Input(c)) }

\* C22: an asset type gets a suggestion exactly when it is a key of the
\* target map and |target - current| is above 2; the suggestion says "Buy"
\* when the difference is positive and "Sell" when it is negative, and its
\* amount is |difference / 100 * total current value|, to two decimals
C22_SuggestionsBySignificantDifference ==
  (Returned(1) /\ Rebalanced) =>
    LET current == rebalancing.current_allocation
        total == rebalancing.total_portfolio_value
    IN  /\ current = AnalysisAllocation(result[1])
        /\ IsAnalysis(result[1]) => total = result[1].summary.current_value
        /\ \A a \in TargetTypes \cup HeldTypes(1) :
             /\ Cardinality(SuggestionsFor(a)) <= 1
             /\ SuggestionsFor(a) # {} <=>
                  \E v \in TargetOf(a) : Abs(v - DictGet(current, a, 0)) > 200
        /\ \A k \in 1..Len(rebalancing.suggestions) :
             LET s == rebalancing.suggestions[k]
                 diff == s.target_percent - DictGet(current, s.asset_type, 0)
             IN  /\ s.target_percent \in TargetOf(s.asset_type)
                 /\ diff > 0 => s.action = "Buy"
                 /\ diff < 0 => s.action = "Sell"
                 /\ 2 * Abs(10000 * s.amount - Abs(total * diff)) <= 10000

\* a portfolio all in stock against a target of 50 percent stock: sell half
\* of the total value
C22_Witness ==
  /\ Returned(1)
  /\ Rebalanced
  /\ rebalancing.total_portfolio_value > 0
  /\ \E k \in 1..Len(rebalancing.suggestions) :
       LET s == rebalancing.suggestions[k]
       IN  /\ s.asset_type = "stock"
           /\ s.current_percent = 10000
           /\ s.target_percent = 5000
           /\ s.action = "Sell"
           /\ 2 * s.amount = rebalancing.total_portfolio_value

\* a difference of exactly 2 and a held asset type that is no target
C22_WitnessTwo ==
  /\ Returned(1)
  /\ Rebalanced
  /\ DictGet(rebalancing.current_allocation, "stock", 0) = 5000
  /\ TargetOf("stock") = {4800}
  /\ TargetOf("bond") = {}
  /\ "bond" \in HeldTypes(1)
  /\ rebalancing.suggestions = <<>>

\* C30: on a portfolio without holdings get_rebalancing_suggestions
\* neither raises nor returns an error: it returns total_portfolio_value 0,
\* an empty current_allocation, and for every target above 2 percent a
\* "Buy" suggestion of amount 0
C30_EmptyPortfolioBuysNothing ==
  (Returned(1) /\ Input(1) = <<>> /\ rebalancing # Pending) =>
    /\ Rebalanced
    /\ "error" \notin DOMAIN rebalancing
    /\ rebalancing.total_portfolio_value = 0
    /\ rebalancing.current_allocation = <<>>
    /\ \A j \in 1..Len(target_allocation) :
         target_allocation[j].percent > 200 =>
           \E k \in 1..Len(rebalancing.suggestions) :
             LET s == rebalancing.suggestions[k]
             IN  /\ s.asset_type = target_allocation[j].asset_type
                 /\ s.action = "Buy"
                 /\ s.amount = 0

C30_Witness ==
  /\ Returned(1)
  /\ Input(1) = <<>>
  /\ Rebalanced
  /\ Len(target_allocation) = 2
  /\ Len(rebalancing.suggestions) = 1
  /\ rebalancing.suggestions[1].action = "Buy"
  /\ rebalancing.suggestions[1].amount = 0

\* analyze has returned its text
Formatted == formatted # <<>>

\* C23: an error result {"error": m} is rendered as "Analysis Error: "
\* followed by m and nothing else, no section of the report; a full
\* analysis is never rendered with the "Analysis Error" text
C23_ErrorResultIsOneLine ==
  (Returned(1) /\ Formatted) =>
    /\ "error" \in DOMAIN result[1] =>
         /\ Len(formatted) = 1
         /\ formatted[1].line = "Analysis Error: "
         /\ formatted[1].values = <<result[1].error>>
    /\ IsAnalysis(result[1]) =>
         /\ \A k \in 1..Len(formatted) : formatted[k].line # "Analysis Error: "
         /\ \E k \in 1..Len(formatted) :
              /\ formatted[k].line = "Holdings: "
              /\ formatted[k].values = <<Len(Input(1))>>

C23_Witness ==
  /\ Returned(1)
  /\ result[1] = NoHoldingsError
  /\ Formatted
  /\ formatted[1].values = <<"No holdings found in portfolio">>

\* a full analysis is rendered
C23_WitnessReport ==
  /\ Analysed(1)
  /\ Formatted
  /\ Len(formatted) > 1

\* C24: when the call of the LLM client raises anything but an
\* HTTPException the endpoint answers 200 with model "error" and a response
\* that contains "Error"; when the call returns a text the endpoint answers
\* 200 with that text and model "llama-3.3-70b-versatile"
C24_ChatErrorsAnswered ==
  (chat.pc = "answered" /\ chat.called) =>
    /\ (chat.outcome.kind = "raise" /\ chat.outcome.class # "HTTPException") =>
         /\ chat.response.status_code = 200
         /\ chat.response.body.model = "error"
         /\ chat.response.body.response.prefix = "Error: "
         /\ chat.response.body.response.text = chat.outcome.text
    /\ (chat.outcome.kind = "completion" /\ chat.outcome.has_content) =>
         /\ chat.response.status_code = 200
         /\ chat.response.body.model = "llama-3.3-70b-versatile"
         /\ chat.response.body.response = Str("", chat.outcome.text)

\* the client raised "API Error" on the second request
C24_Witness ==
  /\ chat.pc = "answered"
  /\ chat.called
  /\ nchat = 2
  /\ chat.outcome.kind = "raise"
  /\ chat.outcome.class = "Exception"
  /\ chat.outcome.text = "API Error"
  /\ chat.response.body.model = "error"

RECURSIVE SumInvestedValue(_, _)
SumInvestedValue(holdings, ids) ==
  IF ids = {} THEN 0
  ELSE LET i == CHOOSE j \in ids : TRUE
       IN holdings[i].invested_value + SumInvestedValue(holdings, ids \ {i})

\* C25: after any sequence of add_holding, update_holding and delete_holding
\* requests, portfolio.total_invested is the sum of invested_value over the
\* holdings of the portfolio
C25_TotalInvestedIsSum ==
  db.total_invested = SumInvestedValue(db.holdings, DOMAIN db.holdings)

\* the requests of a client that dispatch passed to the application,
\* among the first n it received
Admitted(reqs, n, client_ip) ==
  { i \in 1..n : reqs[i].client_ip = client_ip /\ reqs[i].status_code # 429 }

\* how many of them carry a timestamp in the `window' seconds before t
AdmittedIn(reqs, n, client_ip, t, window) ==
  Cardinality({ i \in Admitted(reqs, n, client_ip) :
                  reqs[i].ts > t - window /\ reqs[i].ts <= t })

\* C26: for every client, at every instant, at most minute_limit admitted
\* requests lie in the last 60 seconds and at most hour_limit in the last
\* 3600 seconds; a request that arrives with the limit already reached is
\* answered 429 and is never passed to the application
C26_AdmittedWithinLimits ==
  /\ \A client_ip \in Clients, t \in Instants :
       /\ AdmittedIn(requests, Len(requests), client_ip, t, 60)
            <= middleware.minute_limit
       /\ AdmittedIn(requests, Len(requests), client_ip, t, 3600)
            <= middleware.hour_limit
  /\ \A i \in DOMAIN requests :
       LET r == requests[i]
       IN /\ (\/ AdmittedIn(requests, i - 1, r.client_ip, r.arrived, 60)
                   >= middleware.minute_limit
              \/ AdmittedIn(requests, i - 1, r.client_ip, r.arrived, 3600)
                   >= middleware.hour_limit)
             => r.status_code = 429
          /\ r.status_code = 429 => r.pc = "responded" /\ r.ts = r.arrived

\* a client is at its minute limit, with requests still at the application,
\* and one more request of it was rejected
C26_Witness ==
  /\ middleware.minute_limit = 2
  /\ \E i, j, k \in DOMAIN requests :
       /\ i < j /\ j < k
       /\ requests[i].client_ip = requests[k].client_ip
       /\ requests[j].client_ip = requests[k].client_ip
       /\ requests[i].pc = "call_next"
       /\ requests[j].pc = "call_next"
       /\ requests[k].status_code = 429
       /\ requests[k].arrived - requests[i].ts < 60

\* a request was rejected by the hour limit alone
C26_WitnessHour ==
  \E k \in DOMAIN requests :
    /\ requests[k].status_code = 429
    /\ AdmittedIn(requests, k - 1, requests[k].client_ip, requests[k].arrived, 60)
         < middleware.minute_limit

\* the request a Dispatch step has just received
Received == requests'[Len(requests')]

\* C27: a rejected request leaves the history of every client unchanged, and
\* a request that arrives with fewer than minute_limit admitted requests of
\* its client in the last 60 seconds and fewer than hour_limit in the last
\* 3600 seconds is admitted, whatever was rejected before
C27_RejectionsLeaveNoTrace ==
  [][ Len(requests') > Len(requests) =>
        /\ Received.status_code = 429 => middleware' = middleware
        /\ (/\ AdmittedIn(requests, Len(requests), Received.client_ip,
                          Received.arrived, 60) < middleware.minute_limit
            /\ AdmittedIn(requests, Len(requests), Received.client_ip,
                          Received.arrived, 3600) < middleware.hour_limit)
           => Received.status_code # 429 ]_vars

\* a client was admitted again after two of its requests were rejected
C27_Witness ==
  \E i, j, k \in DOMAIN requests :
    /\ i < j /\ j < k
    /\ requests[i].client_ip = requests[k].client_ip
    /\ requests[j].client_ip = requests[k].client_ip
    /\ requests[i].status_code = 429
    /\ requests[j].status_code = 429
    /\ requests[k].status_code # 429
    /\ \E h \in 1..(i - 1) :
         requests[h].client_ip = requests[k].client_ip /\ requests[h].status_code # 429

\* the row the token of the last call names, if the token decodes, has a
\* numeric `sub' and the row exists
NamesUser ==
  /\ auth.pc = "returned"
  /\ auth.token.decodable
  /\ "sub" \in DOMAIN auth.token.payload
  /\ IsNumber(auth.token.payload.sub)
  /\ IntOf(auth.token.payload.sub) \in DOMAIN users

\* C28: a valid token whose `sub' names an existing user with is_active
\* false fails with 403 "User account is disabled"; a missing user, a token
\* without `sub' or an undecodable token fails with 401 "Could not validate
\* credentials"
C28_DisabledUserIsForbidden ==
  auth.pc = "returned" =>
    /\ (NamesUser /\ ~users[IntOf(auth.token.payload.sub)].is_active) =>
         auth.result = [raised |-> [status_code |-> 403,
                                    detail |-> "User account is disabled"]]
    /\ ( \/ ~auth.token.decodable
         \/ "sub" \notin DOMAIN auth.token.payload
         \/ (IsNumber(auth.token.payload.sub) /\ ~NamesUser) ) =>
         auth.result = [raised |-> credentials_exception]

\* the 401 half of C28 alone
C28_OthersAreUnauthorized ==
  ( /\ auth.pc = "returned"
    /\ \/ ~auth.token.decodable
       \/ "sub" \notin DOMAIN auth.token.payload
       \/ (IsNumber(auth.token.payload.sub) /\ ~NamesUser) )
  => auth.result = [raised |-> credentials_exception]

\* C29: after every call of process_message the memory of a user holds at
\* most 40 entries, and they are the most recent entries of the user's
\* exchanges, in order; a call in which response generation raises adds no
\* entry
C29_MemoryBounded ==
  \A user_id \in DOMAIN memories :
    LET memory == memories[user_id]
        all == exchanges[user_id]
    IN /\ Len(memory) <= 40
       /\ Len(memory) = IF Len(all) < 40 THEN Len(all) ELSE 40
       /\ \A i \in DOMAIN memory : memory[i] = all[Len(all) - Len(memory) + i]

\* a memory was cut twice, and the last call of its user raised
C29_Witness ==
  /\ llm_calls # <<>>
  /\ LET last == llm_calls[Len(llm_calls)]
     IN /\ last.outcome.generate = "raise"
        /\ last.user_id \in DOMAIN memories
        /\ Len(exchanges[last.user_id]) = 44
        /\ Len(memories[last.user_id]) = 40
        /\ memories[last.user_id][1].content = 3

====
